---- MODULE Spec2Model ----
(***************************************************************************)
(* The I/O-readiness backends of the GLib main loop:                       *)
(*   - the portable poll-record store (glib/gmain-poll.c, baseline poller) *)
(*   - the mutex-protected portable backend (GPollLoopBackend)             *)
(*   - the hash-based kernel-notification backend (glib/gmain-epoll.c)     *)
(*   - the reference-counted GEventContext handle (glib/gevent.c) and its  *)
(*     epoll constructor (glib/gevent-epoll.c)                             *)
(* Each part is one state machine over its own variables; a specification  *)
(* drives one part and leaves the others as constructed.                   *)
(***************************************************************************)
EXTENDS Integers, Sequences, FiniteSets, TLC

\* ------------------------------------------------------------------ bounds
\* Largest number of poll records linked in the baseline store.
MaxRecs == 3

\* Descriptors, priorities and interest masks handed to the operations.
FDs == {1, 2}
Priorities == {0, 1, 2}
G_IO_IN == 1
EventMasks == {0, G_IO_IN}

NULL == 0

VARIABLES
  poll_records,     \* the poll-record list head-to-tail, <<[fd, priority, events], ...>>
  n_poll_records,   \* the record counter
  last,             \* baseline poller: the call that produced this state and what it returned
  \* GPollLoopBackend (mutex-protected portable backend)
  mutex,                   \* "free", or the thread holding backend->mutex
  cached_poll_array,       \* the cached GPollFD buffer (<<>> is NULL)
  cached_poll_array_size,
  poll_changed,
  woken,                   \* the scheduler's wake signal is pending
  ipc,                     \* loop thread: position inside g_poll_context_iterate
  loc,                     \* loop thread: the locals of iterate and query
  raced,                   \* the store was changed after the current query walk began
  checked,                 \* what the last iterate handed to g_main_context_check
  mpc,                     \* registering thread: position inside add_fd/modify_fd/remove_fd
  \* GEpollLoopBackend (hash-based kernel-notification backend)
  epoll_fd,                \* the kernel's interest list behind backend->epoll_fd: fd -> kernel mask
  compat_fds,              \* backend->compat_fds: fd -> interest mask
  registered,              \* descriptors whose add_fd returned TRUE and that were not removed since
  fds_ready,               \* backend->fds_ready, Len(fds_ready) is fds_ready_size
  epoll_output_size,       \* backend->epoll_output_size
  \* GEventContext (reference-counted handle)
  ref_count,               \* context->priv->ref_count
  priv_mutex,              \* context->priv->mutex: Mutex("none"|"free"|"cleared") or HeldBy(thread)
  heap,                    \* the blocks of the context that are allocated
  n_finalize,              \* how often context->funcs->finalize was invoked
  tpc,                     \* per thread: position inside the GEventContext call it is in
  holds,                   \* per thread: references to the context it owns
  initialised,             \* the g_once guard of g_event_context_default
  default_event_context,   \* the static default_event_context
  \* array-based kernel-notification backend
  backend_n_compat_fds,    \* backend->n_compat_fds (array variants)
  \* portable store, pointer level
  recs,                    \* the allocated GPollRec blocks, by address
  poll_records_tail,       \* backend->poll_records_tail
  \* epoll-backed EventContext: the callers' side
  added_polls,             \* the add_poll calls not yet undone by a remove_poll
  ctl_failed               \* some epoll_ctl of the EventContext has failed

storeVars == <<poll_records, n_poll_records, last>>
ctxVars == <<mutex, cached_poll_array, cached_poll_array_size, poll_changed, woken,
             ipc, loc, raced, checked, mpc>>
epollVars == <<epoll_fd, compat_fds, registered, fds_ready, epoll_output_size>>
evVars == <<ref_count, priv_mutex, heap, n_finalize, tpc, holds, initialised,
            default_event_context>>
extVars == <<backend_n_compat_fds, recs, poll_records_tail, added_polls, ctl_failed>>
vars == <<poll_records, n_poll_records, last,
          mutex, cached_poll_array, cached_poll_array_size, poll_changed, woken,
          ipc, loc, raced, checked, mpc, epoll_fd, compat_fds, registered,
          fds_ready, epoll_output_size,
          ref_count, priv_mutex, heap, n_finalize, tpc, holds, initialised,
          default_event_context,
          backend_n_compat_fds, recs, poll_records_tail, added_polls, ctl_failed>>

\* ------------------------------------------------- portable store (baseline)
GPollRec(fd, priority, events) == [fd |-> fd, priority |-> priority, events |-> events]

\* A GPollFD slot the callee has not written.
Unwritten == [fd |-> NULL, events |-> 0, revents |-> 0, written |-> FALSE]
GPollFD(fd, events) == [fd |-> fd, events |-> events, revents |-> 0, written |-> TRUE]

\* The locals of g_poll_context_iterate / g_poll_context_query.
NoLocals == [block |-> FALSE, max_priority |-> 0, allocated_nfds |-> 0, nfds |-> 0,
             timeout |-> 0, pollrec |-> NULL, n_poll |-> 0]
NoCheck == [called |-> FALSE, max_priority |-> 0, nfds |-> 0]

NoCall == [op |-> "new", fd |-> NULL, flagged |-> FALSE,
           max_priority |-> 0, n_fds |-> 0, n_poll |-> 0, fds |-> <<>>,
           n_queries |-> 0, poll |-> "none"]
Call(op, fd, flagged) == [NoCall EXCEPT !.op = op, !.fd = fd, !.flagged = flagged]

\* The backward scan of add_fd: prevrec starts at the tail (index Len(list),
\* 0 is NULL) and steps to ->prev while priority < prevrec->priority.
RECURSIVE add_fd_scan_mut(_, _, _)
add_fd_scan_mut(list, prevrec, priority) ==
  IF prevrec # NULL /\ priority <= list[prevrec].priority
    THEN add_fd_scan_mut(list, prevrec - 1, priority)
    ELSE prevrec

RECURSIVE add_fd_scan(_, _, _)
add_fd_scan(list, prevrec, priority) ==
  IF prevrec # NULL /\ priority < list[prevrec].priority
    THEN add_fd_scan(list, prevrec - 1, priority)
    ELSE prevrec

\* Linking newrec between prevrec and nextrec (= the record after prevrec).
add_fd_link(list, prevrec, newrec) ==
  SubSeq(list, 1, prevrec) \o <<newrec>> \o SubSeq(list, prevrec + 1, Len(list))

\* The forward scan of remove_fd / modify_fd: the first record whose fd
\* matches, NULL (0) when the walk runs off the tail.
RECURSIVE find_fd_mut(_, _, _)
find_fd_mut(list, pollrec, fd) ==
  IF pollrec > Len(list) THEN NULL
  ELSE IF list[pollrec].fd = fd /\ (pollrec = Len(list) \/ find_fd_mut(list, pollrec + 1, fd) = NULL)
    THEN pollrec
    ELSE find_fd_mut(list, pollrec + 1, fd)

RECURSIVE find_fd(_, _, _)
find_fd(list, pollrec, fd) ==
  IF pollrec > Len(list) THEN NULL
  ELSE IF list[pollrec].fd = fd THEN pollrec
  ELSE find_fd(list, pollrec + 1, fd)

\* Unlinking the record at pollrec.
remove_fd_unlink(list, pollrec) ==
  SubSeq(list, 1, pollrec - 1) \o SubSeq(list, pollrec + 1, Len(list))

g_baseline_poller_add_fd(fd, events, priority) ==
  /\ n_poll_records < MaxRecs
  /\ LET prevrec == add_fd_scan(poll_records, Len(poll_records), priority)
     IN poll_records' = add_fd_link(poll_records, prevrec, GPollRec(fd, priority, events))
  /\ n_poll_records' = n_poll_records + 1
  /\ last' = Call("add_fd", fd, FALSE)
  /\ UNCHANGED <<ctxVars, epollVars>>
  /\ UNCHANGED evVars
  /\ UNCHANGED extVars

\* Decrements the count whether or not a record was found.
g_baseline_poller_remove_fd_mut(fd) ==
  LET pollrec == find_fd(poll_records, 1, fd)
  IN /\ IF pollrec # NULL
          THEN poll_records' = remove_fd_unlink(poll_records, pollrec)
          ELSE UNCHANGED poll_records
     /\ n_poll_records' = n_poll_records - 1
     /\ last' = Call("remove_fd", fd, pollrec = NULL)
     /\ UNCHANGED <<ctxVars, epollVars>>
     /\ UNCHANGED evVars
     /\ UNCHANGED extVars

g_baseline_poller_remove_fd(fd) ==
  LET pollrec == find_fd(poll_records, 1, fd)
  IN /\ IF pollrec # NULL
          THEN /\ poll_records' = remove_fd_unlink(poll_records, pollrec)
               /\ n_poll_records' = n_poll_records - 1
          ELSE UNCHANGED <<poll_records, n_poll_records>>
     \* g_return_if_fail (pollrec != NULL)
     /\ last' = Call("remove_fd", fd, pollrec = NULL)
     /\ UNCHANGED <<ctxVars, epollVars>>
     /\ UNCHANGED evVars
     /\ UNCHANGED extVars

modify_fd_update_mut(list, pollrec, events, priority) ==
  LET moved == remove_fd_unlink(list, pollrec)
      prevrec == add_fd_scan(moved, Len(moved), priority)
  IN add_fd_link(moved, prevrec, [list[pollrec] EXCEPT !.events = events, !.priority = priority])

modify_fd_update(list, pollrec, events, priority) ==
  [list EXCEPT ![pollrec] = [@ EXCEPT !.events = events, !.priority = priority]]

g_baseline_poller_modify_fd(fd, events, priority) ==
  LET pollrec == find_fd(poll_records, 1, fd)
  IN /\ IF pollrec # NULL
          THEN poll_records' = modify_fd_update(poll_records, pollrec, events, priority)
          ELSE UNCHANGED poll_records
     /\ UNCHANGED n_poll_records
     \* g_return_if_fail (pollrec != NULL)
     /\ last' = Call("modify_fd", fd, pollrec = NULL)
     /\ UNCHANGED <<ctxVars, epollVars>>
     /\ UNCHANGED evVars
     /\ UNCHANGED extVars

g_baseline_poller_reset ==
  /\ poll_records' = <<>>
  /\ n_poll_records' = 0
  /\ last' = Call("reset", NULL, FALSE)
  /\ UNCHANGED <<ctxVars, epollVars>>
  /\ UNCHANGED evVars
  /\ UNCHANGED extVars

\* query: walk from the head while max_priority >= pollrec->priority; a slot
\* is written only when n_poll < n_fds and the record's events are nonzero,
\* n_poll counts every record walked.  Returns [n_poll, fds].
RECURSIVE query_walk(_, _, _, _, _, _)
query_walk(list, pollrec, max_priority, fds, n_fds, n_poll) ==
  IF pollrec <= Len(list) /\ max_priority >= list[pollrec].priority
    THEN query_walk(list, pollrec + 1, max_priority,
           IF n_poll < n_fds /\ list[pollrec].events # 0
             THEN [fds EXCEPT ![n_poll + 1] = GPollFD(list[pollrec].fd, list[pollrec].events)]
             ELSE fds,
           n_fds, n_poll + 1)
    ELSE [n_poll |-> n_poll, fds |-> fds]

\* query called with a caller buffer of n_fds slots it has not written yet.
g_baseline_poller_query(max_priority, n_fds) ==
  LET r == query_walk(poll_records, 1, max_priority, [i \in 1..n_fds |-> Unwritten], n_fds, 0)
  IN /\ last' = [Call("query", NULL, FALSE) EXCEPT
                   !.max_priority = max_priority, !.n_fds = n_fds,
                   !.n_poll = r.n_poll, !.fds = r.fds]
     /\ UNCHANGED <<poll_records, n_poll_records>>
     /\ UNCHANGED <<ctxVars, epollVars>>
     /\ UNCHANGED evVars
     /\ UNCHANGED extVars

\* GPollLoopBackend as g_poll_context_create leaves it, no thread inside.
\* The threads that use a GEventContext.
Threads == {1, 2}
\* The states of the GMutex of a GEventContextPrivate: not initialised
\* ("none"), unlocked ("free"), locked by a thread, cleared.
Mutex(state) == [state |-> state, owner |-> NULL]
HeldBy(t) == [state |-> "held", owner |-> t]

\* Position of a thread inside a call.
Idle == [op |-> "none", pc |-> "idle"]
At(op, pc) == [op |-> op, pc |-> pc]

\* No GEventContext has been created.
NoContext ==
  /\ ref_count = 0
  /\ priv_mutex = Mutex("none")
  /\ heap = {}
  /\ n_finalize = 0
  /\ tpc = [t \in Threads |-> Idle]
  /\ holds = [t \in Threads |-> 0]
  /\ initialised = 0
  /\ default_event_context = NULL

InitCtx ==
  /\ backend_n_compat_fds = 0
  /\ recs = <<>>
  /\ poll_records_tail = NULL
  /\ added_polls = {}
  /\ ctl_failed = FALSE
  /\ mutex = "free"
  /\ cached_poll_array = <<>>
  /\ cached_poll_array_size = 0
  /\ poll_changed = FALSE
  /\ woken = FALSE
  /\ ipc = "idle"
  /\ loc = NoLocals
  /\ raced = FALSE
  /\ checked = NoCheck
  /\ mpc = "idle"
  /\ epoll_fd = [fd \in {} |-> 0]
  /\ compat_fds = [fd \in {} |-> 0]
  /\ registered = {}
  /\ fds_ready = <<>>
  /\ epoll_output_size = 0

InitStore ==
  /\ poll_records = <<>>
  /\ n_poll_records = 0
  /\ last = NoCall
  /\ InitCtx
  /\ NoContext

NextStore ==
  \/ \E fd \in FDs, events \in EventMasks, priority \in Priorities :
       g_baseline_poller_add_fd(fd, events, priority)
  \/ \E fd \in FDs : g_baseline_poller_remove_fd(fd)
  \/ \E fd \in FDs, events \in EventMasks, priority \in Priorities :
       g_baseline_poller_modify_fd(fd, events, priority)
  \/ g_baseline_poller_reset
  \/ \E max_priority \in Priorities, n_fds \in {1, MaxRecs} :
       g_baseline_poller_query(max_priority, n_fds)

SpecStore == InitStore /\ [][NextStore]_vars

\* ------------------------------------------------------- store: the claims
Sorted(list) == \A i \in 1..(Len(list) - 1) : list[i].priority <= list[i + 1].priority

SetMax(S) == CHOOSE x \in S : \A y \in S : y <= x
SetMin(S) == CHOOSE x \in S : \A y \in S : x <= y

\* The index of the last record whose priority is <= p, 0 when there is none.
LastNotAbove(list, p) ==
  LET S == {i \in 1..Len(list) : list[i].priority <= p}
  IN IF S = {} THEN 0 ELSE SetMax(S)

\* The index of the first record carrying fd, 0 when there is none.
FirstWithFd(list, fd) ==
  LET S == {i \in 1..Len(list) : list[i].fd = fd}
  IN IF S = {} THEN 0 ELSE SetMin(S)

Without(list, k) == [i \in 1..(Len(list) - 1) |-> IF i < k THEN list[i] ELSE list[i + 1]]

\* C1 (as claimed): in every state reachable by add_fd, modify_fd and
\* remove_fd the records read head to tail are in non-decreasing priority
\* order.
C1_SortedByPriority == Sorted(poll_records)

\* C3 (as claimed): query(max_priority) returns the number of records with
\* priority <= max_priority and emits exactly those records, in store order,
\* never a record above max_priority.
C3_QueryExactlyWithinPriority ==
  last.op = "query" =>
    LET within == SelectSeq(poll_records, LAMBDA r : r.priority <= last.max_priority)
        emitted == SelectSeq(last.fds, LAMBDA s : s.written)
    IN /\ last.n_poll = Len(within)
       /\ Len(emitted) = Len(within)
       /\ \A i \in 1..Len(within) :
            emitted[i].fd = within[i].fd /\ emitted[i].events = within[i].events

\* C4: add_fd(fd, events, p) links the new record immediately after the last
\* existing record whose priority is <= p (at the head if there is none),
\* keeps the existing records in their order, keeps a sorted store sorted and
\* puts the new record after every existing record of equal priority.
C4_AddFdStableInsert ==
  [][\A fd \in FDs, events \in EventMasks, p \in Priorities :
       g_baseline_poller_add_fd(fd, events, p) =>
         LET k == LastNotAbove(poll_records, p)
         IN /\ Len(poll_records') = Len(poll_records) + 1
            /\ poll_records'[k + 1] = GPollRec(fd, p, events)
            /\ Without(poll_records', k + 1) = poll_records
            /\ Sorted(poll_records) =>
                 /\ Sorted(poll_records')
                 /\ \A i \in 1..Len(poll_records') :
                      (i # k + 1 /\ poll_records'[i].priority = p) => i < k + 1
    ]_vars

\* C4 witness: add_fd has put a record right behind an older record of the
\* same priority in a sorted store of three.
C4_Witness ==
  /\ last.op = "add_fd"
  /\ Len(poll_records) = 3
  /\ Sorted(poll_records)
  /\ \E i \in 1..2 :
       /\ poll_records[i].priority = poll_records[i + 1].priority
       /\ poll_records[i + 1].fd = last.fd
       /\ poll_records[i].fd # last.fd

\* C5: remove_fd(fd), when some record carries fd, unlinks exactly the first
\* such record head to tail; every other record stays, unchanged and in
\* order.
C5_RemoveFdFirstMatch ==
  [][\A fd \in FDs :
       (g_baseline_poller_remove_fd(fd) /\ FirstWithFd(poll_records, fd) # 0) =>
         /\ poll_records' = Without(poll_records, FirstWithFd(poll_records, fd))
         /\ n_poll_records' = n_poll_records - 1
         /\ ~last'.flagged
    ]_vars

\* C5 witness: remove_fd took one record out and a later record with the same
\* descriptor is still linked.
C5_Witness ==
  /\ last.op = "remove_fd"
  /\ ~last.flagged
  /\ \E i \in 1..Len(poll_records) : poll_records[i].fd = last.fd

\* C7: modify_fd(fd, events, priority) rewrites only the interest mask and
\* the priority of the first record carrying fd; its position, the other
\* records and the record count stay as they were (no re-sort).
C7_ModifyFdInPlace ==
  [][\A fd \in FDs, events \in EventMasks, p \in Priorities :
       (g_baseline_poller_modify_fd(fd, events, p) /\ FirstWithFd(poll_records, fd) # 0) =>
         LET k == FirstWithFd(poll_records, fd)
         IN /\ Len(poll_records') = Len(poll_records)
            /\ poll_records'[k] = GPollRec(fd, p, events)
            /\ \A i \in 1..Len(poll_records) : i # k => poll_records'[i] = poll_records[i]
            /\ n_poll_records' = n_poll_records
    ]_vars

\* C7 witness: modify_fd raised the priority of a record that is not at the
\* tail, which left the store out of priority order.
C7_Witness ==
  /\ last.op = "modify_fd"
  /\ ~last.flagged
  /\ ~Sorted(poll_records)
  /\ \E i \in 1..(Len(poll_records) - 1) :
       poll_records[i].fd = last.fd /\ poll_records[i].priority > poll_records[i + 1].priority

\* ------------------------------- mutex-protected portable backend (threads)
\* Largest number of poll records linked in the GPollLoopBackend store.
MaxCtxRecs == 2
\* What the registering thread passes while the loop thread iterates.
CtxFDs == {1}
CtxPriorities == {0, 1}
CtxEventMasks == {G_IO_IN}

Dangling == -1
AnyRec == [fd : CtxFDs, priority : CtxPriorities, events : CtxEventMasks]
Timeouts == {-1, 0}

\* What g_new leaves in a slot: indeterminate memory.
JunkSlots == {[fd |-> 0, events |-> 0, revents |-> 0, written |-> FALSE],
              [fd |-> 1, events |-> G_IO_IN, revents |-> G_IO_IN, written |-> FALSE]}
g_new(n) == [1..n -> JunkSlots]

\* pollrec->next of the record at index i.
next_of(list, i) == IF i < Len(list) THEN i + 1 ELSE NULL

\* Where the query walk's pollrec pointer points once another thread has
\* linked a record behind index prevrec / unlinked the record at index k.
pollrec_after_link(p, prevrec) == IF p > prevrec THEN p + 1 ELSE p
pollrec_after_unlink(p, k) ==
  IF p = k THEN Dangling ELSE IF p > k THEN p - 1 ELSE p

Walking == ipc = "query_walk"
\* The loop thread is between the start of a query walk and its return.
QueryLive == ipc \in {"query_walk", "query_end", "grow", "timeout", "poll", "poll_locked",
                      "polling", "postpoll", "postpoll_locked"}

\* LOCK_BACKEND at the top of add_fd / remove_fd / modify_fd.  At most one
\* registration call is let into a single query walk.
ctx_lock ==
  /\ mpc = "idle"
  /\ mutex = "free"
  /\ ~(Walking /\ raced)
  /\ mutex' = "other"
  /\ mpc' = "locked"
  /\ UNCHANGED <<epollVars, storeVars, cached_poll_array, cached_poll_array_size, poll_changed,
                 woken, ipc, loc, raced, checked>>
  /\ UNCHANGED evVars
  /\ UNCHANGED extVars

\* What every registration call does after its list surgery: poll_changed =
\* TRUE, UNLOCK_BACKEND, then on to g_main_context_wakeup.
ctx_unlock_mut ==
  /\ poll_changed' = TRUE
  /\ mutex' = "free"
  /\ mpc' = "idle"

ctx_unlock ==
  /\ poll_changed' = TRUE
  /\ mutex' = "free"
  /\ mpc' = "wakeup"

g_poll_context_add_fd(fd, events, priority) ==
  /\ mpc = "locked"
  /\ n_poll_records < MaxCtxRecs
  /\ LET prevrec == add_fd_scan(poll_records, Len(poll_records), priority)
     IN /\ poll_records' = add_fd_link(poll_records, prevrec, GPollRec(fd, priority, events))
        /\ loc' = IF Walking
                    THEN [loc EXCEPT !.pollrec = pollrec_after_link(@, prevrec)]
                    ELSE loc
  /\ n_poll_records' = n_poll_records + 1
  /\ raced' = (raced \/ QueryLive)
  /\ ctx_unlock
  /\ UNCHANGED <<epollVars, last, cached_poll_array, cached_poll_array_size, woken, ipc, checked>>
  /\ UNCHANGED evVars
  /\ UNCHANGED extVars

g_poll_context_remove_fd(fd) ==
  /\ mpc = "locked"
  /\ LET pollrec == find_fd(poll_records, 1, fd)
     IN IF pollrec # NULL
          THEN /\ poll_records' = remove_fd_unlink(poll_records, pollrec)
               /\ n_poll_records' = n_poll_records - 1
               /\ loc' = IF Walking
                           THEN [loc EXCEPT !.pollrec = pollrec_after_unlink(@, pollrec)]
                           ELSE loc
               /\ raced' = (raced \/ QueryLive)
          ELSE UNCHANGED <<poll_records, n_poll_records, loc, raced>>
  /\ ctx_unlock
  /\ UNCHANGED <<epollVars, last, cached_poll_array, cached_poll_array_size, woken, ipc, checked>>
  /\ UNCHANGED evVars
  /\ UNCHANGED extVars

g_poll_context_modify_fd(fd, events, priority) ==
  /\ mpc = "locked"
  /\ LET pollrec == find_fd(poll_records, 1, fd)
     IN IF pollrec # NULL
          THEN /\ poll_records' = modify_fd_update(poll_records, pollrec, events, priority)
               /\ raced' = (raced \/ QueryLive)
          ELSE UNCHANGED <<poll_records, raced>>
  /\ ctx_unlock
  /\ UNCHANGED <<epollVars, n_poll_records, last, loc, cached_poll_array, cached_poll_array_size,
                 woken, ipc, checked>>
  /\ UNCHANGED evVars
  /\ UNCHANGED extVars

\* g_main_context_wakeup (backend->context), the last statement of every
\* registration call: the scheduler's wake signal becomes pending.
g_main_context_wakeup ==
  /\ mpc = "wakeup"
  /\ woken' = TRUE
  /\ mpc' = "idle"
  /\ UNCHANGED <<epollVars, storeVars, mutex, cached_poll_array, cached_poll_array_size, poll_changed,
                 ipc, loc, raced, checked>>
  /\ UNCHANGED evVars
  /\ UNCHANGED extVars

\* ---- g_poll_context_iterate, statement by statement
iterate_lock(block) ==
  /\ ipc = "idle"
  /\ mutex = "free"
  /\ mutex' = "loop"
  /\ ipc' = "cache_init"
  /\ loc' = [NoLocals EXCEPT !.block = block]
  /\ checked' = NoCheck
  /\ UNCHANGED <<epollVars, storeVars, cached_poll_array, cached_poll_array_size, poll_changed,
                 woken, raced, mpc>>
  /\ UNCHANGED evVars
  /\ UNCHANGED extVars

iterate_cache_init ==
  /\ ipc = "cache_init"
  /\ IF cached_poll_array = <<>>
       THEN /\ cached_poll_array_size' = n_poll_records
            /\ cached_poll_array' \in g_new(n_poll_records)
       ELSE UNCHANGED <<cached_poll_array, cached_poll_array_size>>
  /\ mutex' = "free"
  /\ ipc' = "read_cache"
  /\ UNCHANGED <<epollVars, storeVars, poll_changed, woken, loc, raced, checked, mpc>>
  /\ UNCHANGED evVars
  /\ UNCHANGED extVars

\* allocated_nfds = backend->cached_poll_array_size; fds = backend->cached_poll_array;
iterate_read_cache ==
  /\ ipc = "read_cache"
  /\ loc' = [loc EXCEPT !.allocated_nfds = cached_poll_array_size]
  /\ ipc' = "prepare"
  /\ UNCHANGED <<epollVars, storeVars, mutex, cached_poll_array, cached_poll_array_size, poll_changed,
                 woken, raced, checked, mpc>>
  /\ UNCHANGED evVars
  /\ UNCHANGED extVars

g_main_context_prepare(max_priority) ==
  /\ ipc = "prepare"
  /\ loc' = [loc EXCEPT !.max_priority = max_priority]
  /\ ipc' = "query"
  /\ UNCHANGED <<epollVars, storeVars, mutex, cached_poll_array, cached_poll_array_size, poll_changed,
                 woken, raced, checked, mpc>>
  /\ UNCHANGED evVars
  /\ UNCHANGED extVars

\* g_poll_context_query: pollrec = backend->poll_records; n_poll = 0;
query_begin ==
  /\ ipc = "query"
  /\ loc' = [loc EXCEPT !.pollrec = IF poll_records = <<>> THEN NULL ELSE 1, !.n_poll = 0]
  /\ raced' = FALSE
  /\ ipc' = "query_walk"
  /\ UNCHANGED <<epollVars, storeVars, mutex, cached_poll_array, cached_poll_array_size, poll_changed,
                 woken, checked, mpc>>
  /\ UNCHANGED evVars
  /\ UNCHANGED extVars

\* Copies the record whatever its priority.
query_visit_mut(rec, nxt) ==
  /\ cached_poll_array' =
       IF loc.n_poll < loc.allocated_nfds /\ rec.events # 0
         THEN [cached_poll_array EXCEPT ![loc.n_poll + 1] = GPollFD(rec.fd, rec.events)]
         ELSE cached_poll_array
  /\ loc' = [loc EXCEPT !.pollrec = nxt, !.n_poll = @ + 1]
  /\ ipc' = "query_walk"

\* One turn of the while loop over the record rec whose successor is nxt.
query_visit(rec, nxt) ==
  IF loc.max_priority >= rec.priority
    THEN /\ cached_poll_array' =
              IF loc.n_poll < loc.allocated_nfds /\ rec.events # 0
                THEN [cached_poll_array EXCEPT ![loc.n_poll + 1] = GPollFD(rec.fd, rec.events)]
                ELSE cached_poll_array
         /\ loc' = [loc EXCEPT !.pollrec = nxt, !.n_poll = @ + 1]
         /\ ipc' = "query_walk"
    ELSE /\ ipc' = "query_end"
         /\ UNCHANGED <<cached_poll_array, loc>>

query_step ==
  /\ ipc = "query_walk"
  /\ loc.pollrec # Dangling
  /\ IF loc.pollrec = NULL
       THEN /\ ipc' = "query_end"
            /\ UNCHANGED <<cached_poll_array, loc>>
       ELSE query_visit(poll_records[loc.pollrec], next_of(poll_records, loc.pollrec))
  /\ UNCHANGED <<epollVars, storeVars, mutex, cached_poll_array_size, poll_changed,
                 woken, raced, checked, mpc>>
  /\ UNCHANGED evVars
  /\ UNCHANGED extVars

\* The walk dereferences a record another thread has freed: the fields and
\* the next pointer it reads are indeterminate.
query_step_freed ==
  /\ ipc = "query_walk"
  /\ loc.pollrec = Dangling
  /\ \/ /\ ipc' = "query_end"
        /\ UNCHANGED <<cached_poll_array, loc>>
     \/ /\ loc.n_poll < MaxCtxRecs
        /\ \E rec \in AnyRec, nxt \in 0..Len(poll_records) : query_visit(rec, nxt)
  /\ UNCHANGED <<epollVars, storeVars, mutex, cached_poll_array_size, poll_changed,
                 woken, raced, checked, mpc>>
  /\ UNCHANGED evVars
  /\ UNCHANGED extVars

\* backend->poll_changed = FALSE; return n_poll;  and the while condition
\* of iterate, nfds > allocated_nfds.
query_end ==
  /\ ipc = "query_end"
  /\ poll_changed' = FALSE
  /\ loc' = [loc EXCEPT !.nfds = loc.n_poll, !.pollrec = NULL]
  /\ ipc' = IF loc.n_poll > loc.allocated_nfds THEN "grow" ELSE "timeout"
  /\ UNCHANGED <<epollVars, storeVars, mutex, cached_poll_array, cached_poll_array_size,
                 woken, raced, checked, mpc>>
  /\ UNCHANGED evVars
  /\ UNCHANGED extVars

\* g_free (fds); cached_poll_array_size = allocated_nfds = nfds;
\* cached_poll_array = fds = g_new (GPollFD, nfds);
iterate_grow ==
  /\ ipc = "grow"
  /\ cached_poll_array_size' = loc.nfds
  /\ cached_poll_array' \in g_new(loc.nfds)
  /\ loc' = [loc EXCEPT !.allocated_nfds = loc.nfds]
  /\ ipc' = "query"
  /\ UNCHANGED <<epollVars, storeVars, mutex, poll_changed, woken, raced, checked, mpc>>
  /\ UNCHANGED evVars
  /\ UNCHANGED extVars

\* timeout = block ? g_main_context_get_poll_timeout (context) : 0;
\* then the test that opens g_poll_context_poll.
g_main_context_get_poll_timeout(timeout) ==
  /\ ipc = "timeout"
  /\ loc.block \/ timeout = 0
  /\ loc' = [loc EXCEPT !.timeout = timeout]
  /\ ipc' = IF loc.nfds # 0 \/ timeout # 0 THEN "poll" ELSE "postpoll"
  /\ UNCHANGED <<epollVars, storeVars, mutex, cached_poll_array, cached_poll_array_size, poll_changed,
                 woken, raced, checked, mpc>>
  /\ UNCHANGED evVars
  /\ UNCHANGED extVars

poll_lock ==
  /\ ipc = "poll"
  /\ mutex = "free"
  /\ mutex' = "loop"
  /\ ipc' = "poll_locked"
  /\ UNCHANGED <<epollVars, storeVars, cached_poll_array, cached_poll_array_size, poll_changed,
                 woken, loc, raced, checked, mpc>>
  /\ UNCHANGED evVars
  /\ UNCHANGED extVars

\* Goes into (*poll_func) with the mutex still held.
poll_unlock_mut ==
  /\ ipc = "poll_locked"
  /\ ipc' = "polling"
  /\ UNCHANGED <<epollVars, storeVars, mutex, cached_poll_array, cached_poll_array_size,
                 poll_changed, woken, loc, raced, checked, mpc>>
  /\ UNCHANGED evVars
  /\ UNCHANGED extVars

\* poll_func = backend->poll_func; UNLOCK_BACKEND; then (*poll_func) blocks.
poll_unlock ==
  /\ ipc = "poll_locked"
  /\ mutex' = "free"
  /\ ipc' = "polling"
  /\ UNCHANGED <<epollVars, storeVars, cached_poll_array, cached_poll_array_size, poll_changed,
                 woken, loc, raced, checked, mpc>>
  /\ UNCHANGED evVars
  /\ UNCHANGED extVars

\* Reports every entry ready.
poll_revents_mut(fds, nfds, ready) ==
  [i \in 1..Len(fds) |->
     IF i <= nfds THEN [fds[i] EXCEPT !.revents = G_IO_IN] ELSE fds[i]]

\* poll() writes revents of every entry it was given.
poll_revents(fds, nfds, ready) ==
  [i \in 1..Len(fds) |->
     IF i <= nfds THEN [fds[i] EXCEPT !.revents = IF i \in ready THEN G_IO_IN ELSE 0]
     ELSE fds[i]]

\* (*poll_func) (fds, n_fds, timeout) returns > 0: descriptors are ready.
poll_ready(ready) ==
  /\ ipc = "polling"
  /\ ready # {}
  /\ cached_poll_array' = poll_revents(cached_poll_array, loc.nfds, ready)
  /\ ipc' = "postpoll"
  /\ UNCHANGED <<epollVars, storeVars, mutex, cached_poll_array_size, poll_changed,
                 woken, loc, raced, checked, mpc>>
  /\ UNCHANGED evVars
  /\ UNCHANGED extVars

\* ... returns because the wake signal is pending, or because the timeout
\* (not -1) ran out: no entry is ready.
poll_woken_or_timeout ==
  /\ ipc = "polling"
  /\ woken \/ loc.timeout # -1
  /\ cached_poll_array' = poll_revents(cached_poll_array, loc.nfds, {})
  /\ ipc' = "postpoll"
  /\ UNCHANGED <<epollVars, storeVars, mutex, cached_poll_array_size, poll_changed,
                 woken, loc, raced, checked, mpc>>
  /\ UNCHANGED evVars
  /\ UNCHANGED extVars

\* ... returns < 0 (EINTR, or a failure that is warned about): the entries
\* are left as they were.
poll_failed ==
  /\ ipc = "polling"
  /\ ipc' = "postpoll"
  /\ UNCHANGED <<epollVars, storeVars, mutex, cached_poll_array, cached_poll_array_size, poll_changed,
                 woken, loc, raced, checked, mpc>>
  /\ UNCHANGED evVars
  /\ UNCHANGED extVars

postpoll_lock ==
  /\ ipc = "postpoll"
  /\ mutex = "free"
  /\ mutex' = "loop"
  /\ ipc' = "postpoll_locked"
  /\ UNCHANGED <<epollVars, storeVars, cached_poll_array, cached_poll_array_size, poll_changed,
                 woken, loc, raced, checked, mpc>>
  /\ UNCHANGED evVars
  /\ UNCHANGED extVars

\* poll_changed = backend->poll_changed; UNLOCK_BACKEND; if (poll_changed)
\* return FALSE; return g_main_context_check (context, max_priority, fds, nfds);
\* the check acknowledges the wake signal.
iterate_return ==
  /\ ipc = "postpoll_locked"
  /\ mutex' = "free"
  /\ IF poll_changed
       THEN UNCHANGED <<checked, woken>>
       ELSE /\ checked' = [called |-> TRUE, max_priority |-> loc.max_priority,
                           fds |-> cached_poll_array, nfds |-> loc.nfds]
            /\ woken' = FALSE
  /\ ipc' = "idle"
  /\ loc' = NoLocals
  /\ raced' = FALSE
  /\ UNCHANGED <<epollVars, storeVars, cached_poll_array, cached_poll_array_size, poll_changed, mpc>>
  /\ UNCHANGED evVars
  /\ UNCHANGED extVars

InitPollCtx ==
  /\ poll_records = <<>>
  /\ n_poll_records = 0
  /\ last = NoCall
  /\ InitCtx
  /\ NoContext

NextRegister ==
  \/ ctx_lock
  \/ \E fd \in CtxFDs, events \in CtxEventMasks, priority \in CtxPriorities :
       g_poll_context_add_fd(fd, events, priority)
  \/ \E fd \in CtxFDs : g_poll_context_remove_fd(fd)
  \/ \E fd \in CtxFDs, events \in CtxEventMasks, priority \in CtxPriorities :
       g_poll_context_modify_fd(fd, events, priority)
  \/ g_main_context_wakeup

NextIterate ==
  \/ \E block \in BOOLEAN : iterate_lock(block)
  \/ iterate_cache_init
  \/ iterate_read_cache
  \/ \E max_priority \in CtxPriorities : g_main_context_prepare(max_priority)
  \/ query_begin
  \/ query_step
  \/ query_step_freed
  \/ query_end
  \/ iterate_grow
  \/ \E timeout \in Timeouts : g_main_context_get_poll_timeout(timeout)
  \/ poll_lock
  \/ poll_unlock
  \/ \E ready \in SUBSET (1..loc.nfds) : poll_ready(ready)
  \/ poll_woken_or_timeout
  \/ poll_failed
  \/ postpoll_lock
  \/ iterate_return

NextPollCtx == NextRegister \/ NextIterate

SpecPollCtx == InitPollCtx /\ [][NextPollCtx]_vars

\* ------------------------------------------ baseline poller: iterate
\* Largest number of poll records linked while the baseline poller iterates.
MaxIterRecs == 2
IterPriorities == {0, 1}

\* g_renew (GPollFD, fds, n): the old slots are kept, the new ones hold
\* whatever the allocator left there (junk).
g_renew(fds, n, junk) == [i \in 1..n |-> IF i <= Len(fds) THEN fds[i] ELSE junk]

\* Queries once and takes the count whether or not the buffer holds it.
iterate_query_loop_mut(list, max_priority, fds, junk, n_queries) ==
  LET r == query_walk(list, 1, max_priority, fds, Len(fds), 0)
  IN [fds |-> r.fds, nfds |-> r.n_poll, n_queries |-> n_queries + 1]

\* while ((nfds = query (backend, max_priority, fds, allocated_nfds)) > allocated_nfds)
\*   { cached_poll_array_size = allocated_nfds = nfds; fds = g_renew (GPollFD, fds, nfds); }
RECURSIVE iterate_query_loop(_, _, _, _, _)
iterate_query_loop(list, max_priority, fds, junk, n_queries) ==
  LET r == query_walk(list, 1, max_priority, fds, Len(fds), 0)
  IN IF r.n_poll > Len(fds)
       THEN iterate_query_loop(list, max_priority, g_renew(fds, r.n_poll, junk), junk, n_queries + 1)
       ELSE [fds |-> r.fds, nfds |-> r.n_poll, n_queries |-> n_queries + 1]

\* g_baseline_poller_poll: poll_func is called when n_fds || timeout != 0;
\* outcome "ready" (> 0), "timeout" (0, not with timeout -1) or "failed" (< 0).
baseline_poll(fds, nfds, timeout, outcome, ready) ==
  IF nfds = 0 /\ timeout = 0 THEN fds
  ELSE IF outcome = "ready" THEN poll_revents(fds, nfds, ready)
  ELSE IF outcome = "timeout" THEN poll_revents(fds, nfds, {})
  ELSE fds

PollOutcomes(n) ==
  {<<"ready", S>> : S \in (SUBSET (1..n)) \ {{}}}
    \cup {<<"timeout", {}>>, <<"failed", {}>>, <<"none", {}>>}

g_baseline_poller_iterate(max_priority, timeout, junk, outcome, ready) ==
  LET fds0 == IF cached_poll_array = <<>>
                THEN g_renew(<<>>, n_poll_records, junk)
                ELSE cached_poll_array
      q == iterate_query_loop(poll_records, max_priority, fds0, junk, 0)
      polled == q.nfds # 0 \/ timeout # 0
  IN /\ outcome = "ready" => (polled /\ ready # {} /\ ready \subseteq 1..q.nfds)
     /\ outcome = "timeout" => (polled /\ timeout # -1 /\ ready = {})
     /\ outcome = "failed" => (polled /\ ready = {})
     /\ outcome = "none" => (~polled /\ ready = {})
     /\ cached_poll_array' = baseline_poll(q.fds, q.nfds, timeout, outcome, ready)
     /\ cached_poll_array_size' = Len(q.fds)
     \* g_main_loop_process_poll (loop, max_priority, fds, nfds)
     /\ last' = [Call("iterate", NULL, FALSE) EXCEPT
                   !.max_priority = max_priority, !.n_fds = Len(q.fds), !.n_poll = q.nfds,
                   !.n_queries = q.n_queries, !.poll = outcome]
     /\ UNCHANGED <<poll_records, n_poll_records>>
     /\ UNCHANGED <<mutex, poll_changed, woken, ipc, loc, raced, checked, mpc, epollVars>>
     /\ UNCHANGED evVars
     /\ UNCHANGED extVars

\* The store operations while an iterating poller is in use.
iter_add_fd(fd, events, priority) ==
  /\ n_poll_records < MaxIterRecs
  /\ poll_records' = add_fd_link(poll_records,
                                 add_fd_scan(poll_records, Len(poll_records), priority),
                                 GPollRec(fd, priority, events))
  /\ n_poll_records' = n_poll_records + 1
  /\ last' = Call("add_fd", fd, FALSE)
  /\ UNCHANGED <<ctxVars, epollVars>>
  /\ UNCHANGED evVars
  /\ UNCHANGED extVars

NextIter ==
  \/ \E fd \in FDs, events \in EventMasks, priority \in IterPriorities :
       iter_add_fd(fd, events, priority)
  \/ \E fd \in FDs : g_baseline_poller_remove_fd(fd)
  \/ \E fd \in FDs, events \in EventMasks, priority \in IterPriorities :
       g_baseline_poller_modify_fd(fd, events, priority)
  \/ g_baseline_poller_reset
  \/ \E max_priority \in IterPriorities, timeout \in Timeouts, junk \in JunkSlots,
        res \in PollOutcomes(MaxIterRecs) :
       g_baseline_poller_iterate(max_priority, timeout, junk, res[1], res[2])

SpecIter == InitStore /\ [][NextIter]_vars

\* ------------------------------------------------- iterate: the claims
\* C2 (as claimed): every entry below the count of the array iterate passes
\* to the poll function and on to the check step names the descriptor and
\* interest mask of a record registered in the store, and every registered
\* record with nonzero interest and priority <= max_priority is in the array.
C2_ArrayIsTheRegisteredSet ==
  last.op = "iterate" =>
    /\ \A i \in 1..last.n_poll :
         \E k \in 1..Len(poll_records) :
           /\ cached_poll_array[i].fd = poll_records[k].fd
           /\ cached_poll_array[i].events = poll_records[k].events
    /\ \A k \in 1..Len(poll_records) :
         (poll_records[k].events # 0 /\ poll_records[k].priority <= last.max_priority) =>
           \E i \in 1..last.n_poll :
             /\ cached_poll_array[i].fd = poll_records[k].fd
             /\ cached_poll_array[i].events = poll_records[k].events

\* The threads keep running: a registration call that has unlocked goes on
\* to its wakeup statement.
SpecPollCtxFair == SpecPollCtx /\ WF_vars(g_main_context_wakeup)

\* ------------------------------------- portable backend threads: the claims
\* Positions of the loop thread whose next statement reads or writes the
\* poll-record list, the record count, poll_changed or the cached buffer.
LoopAccessPcs == {"cache_init", "read_cache", "query", "query_walk", "query_end", "grow",
                  "postpoll_locked"}

\* C8 (as claimed): every read or write of the list, the count, poll_changed
\* and the cached buffer happens while the executing thread holds the
\* backend mutex, and no registration call changes the store while the query
\* walk is in progress.
C8_StoreAccessUnderMutex ==
  /\ ipc \in LoopAccessPcs => mutex = "loop"
  /\ mpc = "locked" => mutex = "other"
  /\ Walking => ~raced

EpollFDs == {1, 2, 3, 4}
NotPollable == {3, 4}
G_IO_ERR == 8
EpollEventMasks == {0, G_IO_IN, G_IO_IN + G_IO_ERR}

\* The guint counter n_poll_records is kept as the 32-bit pattern the atomic
\* operations work on, read as a gint: a value v < 0 is the guint 2^32 + v.
\* MaxUnderflow is how far below zero the pattern is followed before the
\* model stops issuing further decrements.
MaxUnderflow == 2
CounterRange == (0 - MaxUnderflow) .. Cardinality(EpollFDs \ NotPollable)

HasBit(mask, bit) == (mask \div bit) % 2 = 1

\* Lets the error bit through as well.
g_io_condition_to_epoll_events_mut(io_cond) ==
  (IF HasBit(io_cond, G_IO_IN) THEN G_IO_IN ELSE 0)
  + (IF HasBit(io_cond, 2 * G_IO_IN) THEN 2 * G_IO_IN ELSE 0)
  + (IF HasBit(io_cond, 4 * G_IO_IN) THEN 4 * G_IO_IN ELSE 0)
  + (IF HasBit(io_cond, 8 * G_IO_IN) THEN 8 * G_IO_IN ELSE 0)

\* EPOLLIN, EPOLLPRI and EPOLLOUT have the values of G_IO_IN, G_IO_PRI and
\* G_IO_OUT; every other bit of the GIOCondition is dropped.
g_io_condition_to_epoll_events(io_cond) ==
  (IF HasBit(io_cond, G_IO_IN) THEN G_IO_IN ELSE 0)
  + (IF HasBit(io_cond, 2 * G_IO_IN) THEN 2 * G_IO_IN ELSE 0)
  + (IF HasBit(io_cond, 4 * G_IO_IN) THEN 4 * G_IO_IN ELSE 0)

g_hash_table_contains(tbl, key) == key \in DOMAIN tbl

\* Inserts only over an existing key.
g_hash_table_replace_mut(tbl, key, value) ==
  [k \in DOMAIN tbl |-> IF k = key THEN value ELSE tbl[k]]

g_hash_table_replace(tbl, key, value) ==
  [k \in DOMAIN tbl \cup {key} |-> IF k = key THEN value ELSE tbl[k]]

g_hash_table_remove(tbl, key) == [k \in DOMAIN tbl \ {key} |-> tbl[k]]

\* What epoll_ctl answers for a descriptor, given the interest list.
EPOLL_CTL_ADD(fd) ==
  IF fd \in NotPollable THEN {"EPERM"}
  ELSE IF fd \in DOMAIN epoll_fd THEN {"EEXIST"}
  ELSE {"OK", "ENOSPC"}

EPOLL_CTL_MOD(fd) ==
  IF fd \in NotPollable THEN {"EPERM"}
  ELSE IF fd \in DOMAIN epoll_fd THEN {"OK", "ENOMEM"}
  ELSE {"ENOENT"}

\* EBADF: the descriptor was closed before the call (the kernel has dropped
\* it from the interest list by then).
EPOLL_CTL_DEL(fd) ==
  IF fd \in NotPollable THEN {"EPERM"}
  ELSE IF fd \in DOMAIN epoll_fd THEN {"OK", "ENOMEM"}
  ELSE {"ENOENT", "EBADF"}

\* No epoll_ctl call was made.
NOCALL == "NOCALL"

\* g_epoll_context_remove_fd: a failed EPOLL_CTL_DEL is logged unless errno is
\* EBADF, ENOENT or EPERM.  The mutant forgets EPERM.
remove_fd_warns_mut(errno) == errno \notin {"EBADF", "ENOENT"}

remove_fd_warns(errno) == errno \notin {"EBADF", "ENOENT", "EPERM"}

EpollCall(op, fd, retval, warned, errno) ==
  [op |-> op, fd |-> fd, retval |-> retval, warned |-> warned, errno |-> errno]

\* Counts the descriptor as kernel-managed on the EPERM path as well.
g_epoll_context_add_fd_mut(fd, events, errno) ==
  /\ errno \in EPOLL_CTL_ADD(fd)
  /\ IF errno \notin {"OK", "EPERM"}
       THEN /\ last' = EpollCall("add_fd", fd, FALSE, TRUE, errno)
            /\ UNCHANGED <<epoll_fd, compat_fds, n_poll_records, registered>>
       ELSE /\ IF errno = "EPERM"
                 THEN /\ compat_fds' = g_hash_table_replace(compat_fds, fd, events)
                      /\ UNCHANGED epoll_fd
                 ELSE /\ epoll_fd' = g_hash_table_replace(epoll_fd, fd,
                                        g_io_condition_to_epoll_events(events))
                      /\ UNCHANGED compat_fds
            /\ n_poll_records' = n_poll_records + 1
            /\ registered' = registered \cup {fd}
            /\ last' = EpollCall("add_fd", fd, TRUE, FALSE, errno)
  /\ UNCHANGED <<poll_records, ctxVars, fds_ready, epoll_output_size>>
  /\ UNCHANGED evVars
  /\ UNCHANGED extVars

g_epoll_context_add_fd(fd, events, errno) ==
  /\ errno \in EPOLL_CTL_ADD(fd)
  /\ IF errno # "OK"
       THEN IF errno = "EPERM"
              THEN /\ compat_fds' = g_hash_table_replace(compat_fds, fd, events)
                   /\ registered' = registered \cup {fd}
                   /\ last' = EpollCall("add_fd", fd, TRUE, FALSE, errno)
                   /\ UNCHANGED <<epoll_fd, n_poll_records>>
              ELSE /\ last' = EpollCall("add_fd", fd, FALSE, TRUE, errno)
                   /\ UNCHANGED <<epoll_fd, compat_fds, n_poll_records, registered>>
       ELSE /\ epoll_fd' = g_hash_table_replace(epoll_fd, fd,
                                                g_io_condition_to_epoll_events(events))
            /\ n_poll_records' = n_poll_records + 1
            /\ registered' = registered \cup {fd}
            /\ last' = EpollCall("add_fd", fd, TRUE, FALSE, errno)
            /\ UNCHANGED compat_fds
  /\ UNCHANGED <<poll_records, ctxVars, fds_ready, epoll_output_size>>
  /\ UNCHANGED evVars
  /\ UNCHANGED extVars

g_epoll_context_modify_fd(fd, events, errno) ==
  /\ LET is_compat == g_hash_table_contains(compat_fds, fd)
     IN IF is_compat
          THEN /\ errno = NOCALL
               /\ compat_fds' = g_hash_table_replace(compat_fds, fd, events)
               /\ last' = EpollCall("modify_fd", fd, TRUE, FALSE, errno)
               /\ UNCHANGED epoll_fd
          ELSE /\ errno \in EPOLL_CTL_MOD(fd)
               /\ IF errno # "OK"
                    THEN /\ last' = EpollCall("modify_fd", fd, FALSE, TRUE, errno)
                         /\ UNCHANGED epoll_fd
                    ELSE /\ epoll_fd' = g_hash_table_replace(epoll_fd, fd,
                                          g_io_condition_to_epoll_events(events))
                         /\ last' = EpollCall("modify_fd", fd, TRUE, FALSE, errno)
               /\ UNCHANGED compat_fds
  /\ UNCHANGED <<poll_records, n_poll_records, registered, ctxVars, fds_ready, epoll_output_size>>
  /\ UNCHANGED evVars
  /\ UNCHANGED extVars

\* Erases the compatibility entry and then goes on to the kernel removal.
g_epoll_context_remove_fd_mut(fd, errno) ==
  /\ errno \in EPOLL_CTL_DEL(fd)
  /\ n_poll_records - 1 \in CounterRange
  /\ compat_fds' = g_hash_table_remove(compat_fds, fd)
  /\ n_poll_records' = n_poll_records - 1
  /\ IF errno # "OK"
       THEN /\ last' = EpollCall("remove_fd", fd, g_hash_table_contains(compat_fds, fd),
                                 remove_fd_warns(errno), errno)
            /\ UNCHANGED epoll_fd
       ELSE /\ epoll_fd' = g_hash_table_remove(epoll_fd, fd)
            /\ last' = EpollCall("remove_fd", fd, TRUE, FALSE, errno)
  /\ registered' = IF last'.retval THEN registered \ {fd} ELSE registered
  /\ UNCHANGED <<poll_records, ctxVars, fds_ready, epoll_output_size>>
  /\ UNCHANGED evVars
  /\ UNCHANGED extVars

g_epoll_context_remove_fd(fd, errno) ==
  /\ LET was_compat_fd == g_hash_table_contains(compat_fds, fd)
     IN IF was_compat_fd
          THEN /\ errno = NOCALL
               /\ compat_fds' = g_hash_table_remove(compat_fds, fd)
               /\ last' = EpollCall("remove_fd", fd, TRUE, FALSE, errno)
               /\ UNCHANGED <<epoll_fd, n_poll_records>>
          ELSE /\ errno \in EPOLL_CTL_DEL(fd)
               /\ n_poll_records - 1 \in CounterRange
               /\ n_poll_records' = n_poll_records - 1
               /\ IF errno # "OK"
                    THEN /\ last' = EpollCall("remove_fd", fd, FALSE, remove_fd_warns(errno), errno)
                         /\ UNCHANGED epoll_fd
                    ELSE /\ epoll_fd' = g_hash_table_remove(epoll_fd, fd)
                         /\ last' = EpollCall("remove_fd", fd, TRUE, FALSE, errno)
               /\ UNCHANGED compat_fds
  /\ registered' = IF last'.retval THEN registered \ {fd} ELSE registered
  /\ UNCHANGED <<poll_records, ctxVars, fds_ready, epoll_output_size>>
  /\ UNCHANGED evVars
  /\ UNCHANGED extVars

EpollErrnos == {"OK", "EPERM", "EEXIST", "ENOSPC", "ENOMEM", "ENOENT", "EBADF", NOCALL}

\* g_epoll_context_create
InitEpoll == InitStore

NextEpoll ==
  \/ \E fd \in EpollFDs, events \in EpollEventMasks, errno \in EpollErrnos :
       g_epoll_context_add_fd(fd, events, errno)
  \/ \E fd \in EpollFDs, events \in EpollEventMasks, errno \in EpollErrnos :
       g_epoll_context_modify_fd(fd, events, errno)
  \/ \E fd \in EpollFDs, errno \in EpollErrnos : g_epoll_context_remove_fd(fd, errno)

SpecEpoll == InitEpoll /\ [][NextEpoll]_vars

\* --------------------------------------- kernel-notification backend: claims
\* C6 (as claimed): remove_fd of a descriptor that is in neither the kernel's
\* interest list nor the compatibility set reports failure and leaves the
\* managed-descriptor counter and the compatibility set as they were.
C6_RemoveAbsentLeavesStateUnchanged ==
  [][(/\ last'.op = "remove_fd"
      /\ last'.fd \notin DOMAIN epoll_fd
      /\ last'.fd \notin DOMAIN compat_fds)
       => (/\ last'.retval = FALSE
           /\ n_poll_records' = n_poll_records
           /\ compat_fds' = compat_fds)]_vars

SameExcept(tbl, tbl2, key) ==
  /\ DOMAIN tbl2 \ {key} = DOMAIN tbl \ {key}
  /\ \A k \in DOMAIN tbl \ {key} : tbl2[k] = tbl[k]

\* C11: add_fd has exactly three outcomes.  Kernel registration succeeds:
\* TRUE, counter + 1, compatibility set unchanged.  Kernel answers EPERM:
\* TRUE, the descriptor is in the compatibility set with the given interest
\* mask, counter unchanged.  Any other kernel error: FALSE with a warning,
\* counter and compatibility set unchanged.
C11_AddFdThreeOutcomes ==
  [][\A fd \in EpollFDs, events \in EpollEventMasks, errno \in EpollErrnos :
       g_epoll_context_add_fd(fd, events, errno) =>
         \/ /\ errno = "OK"
            /\ last'.retval /\ ~last'.warned
            /\ n_poll_records' = n_poll_records + 1
            /\ compat_fds' = compat_fds
         \/ /\ errno = "EPERM"
            /\ last'.retval /\ ~last'.warned
            /\ fd \in DOMAIN compat_fds' /\ compat_fds'[fd] = events
            /\ SameExcept(compat_fds, compat_fds', fd)
            /\ n_poll_records' = n_poll_records
            /\ epoll_fd' = epoll_fd
         \/ /\ errno \notin {"OK", "EPERM"}
            /\ ~last'.retval /\ last'.warned
            /\ n_poll_records' = n_poll_records
            /\ compat_fds' = compat_fds
            /\ epoll_fd' = epoll_fd
    ]_vars

\* C11 witness: with one descriptor kernel-managed, add_fd of the regular
\* file was answered EPERM and put it into the compatibility set with the
\* untranslated mask; the counter still reads 1.
C11_Witness ==
  /\ last.op = "add_fd"
  /\ last.errno = "EPERM"
  /\ last.retval
  /\ n_poll_records = 1
  /\ DOMAIN epoll_fd = {1}
  /\ DOMAIN compat_fds = {3}
  /\ compat_fds[3] = G_IO_IN + G_IO_ERR

\* C12: modify_fd and remove_fd on a descriptor that is in the compatibility
\* set update / erase only that entry and return TRUE: no epoll_ctl call is
\* made, the kernel's interest list and the counter stay as they were.
C12_CompatOnlyTouchesCompat ==
  [][/\ \A fd \in EpollFDs, events \in EpollEventMasks, errno \in EpollErrnos :
          (g_epoll_context_modify_fd(fd, events, errno) /\ fd \in DOMAIN compat_fds) =>
            /\ last'.retval /\ ~last'.warned /\ errno = NOCALL
            /\ DOMAIN compat_fds' = DOMAIN compat_fds
            /\ compat_fds'[fd] = events
            /\ SameExcept(compat_fds, compat_fds', fd)
            /\ epoll_fd' = epoll_fd
            /\ n_poll_records' = n_poll_records
     /\ \A fd \in EpollFDs, errno \in EpollErrnos :
          (g_epoll_context_remove_fd(fd, errno) /\ fd \in DOMAIN compat_fds) =>
            /\ last'.retval /\ ~last'.warned /\ errno = NOCALL
            /\ fd \notin DOMAIN compat_fds'
            /\ SameExcept(compat_fds, compat_fds', fd)
            /\ epoll_fd' = epoll_fd
            /\ n_poll_records' = n_poll_records
    ]_vars

\* C12 witness: remove_fd erased the compatibility descriptor without a
\* kernel call while another descriptor stays kernel-managed and counted.
C12_Witness ==
  /\ last.op = "remove_fd"
  /\ last.fd \in NotPollable
  /\ last.errno = NOCALL
  /\ last.retval
  /\ compat_fds = [fd \in {} |-> 0]
  /\ DOMAIN epoll_fd = {1}
  /\ n_poll_records = 1

\* C13: remove_fd of a descriptor that is not in the compatibility set, when
\* EPOLL_CTL_DEL fails: no warning for EBADF, ENOENT and EPERM, a warning for
\* every other errno.
C13_RemoveFdWarnings ==
  [][\A fd \in EpollFDs, errno \in EpollErrnos :
       (g_epoll_context_remove_fd(fd, errno) /\ fd \notin DOMAIN compat_fds /\ errno # "OK") =>
         /\ ~last'.retval
         /\ last'.warned <=> errno \notin {"EBADF", "ENOENT", "EPERM"}
    ]_vars

\* C13 witness: EPOLL_CTL_DEL of the regular file, which is not in the
\* compatibility set, was answered EPERM and remove_fd stayed silent.
C13_Witness ==
  /\ last.op = "remove_fd"
  /\ last.fd \in NotPollable
  /\ last.errno = "EPERM"
  /\ ~last.retval
  /\ ~last.warned

\* ------------------------- kernel-notification backend: the iterate cycle
G_IO_PRI == 2
G_IO_OUT == 4
G_IO_HUP == 16

\* The scheduler's deadline: none (-1) or some time ahead.
Deadlines == {-1, 5}

\* EPOLLIN, EPOLLPRI, EPOLLOUT, EPOLLERR and EPOLLHUP have the values of the
\* GIOCondition bits; every other bit of the kernel mask is dropped.
g_io_condition_from_epoll_events(epoll_events) ==
  (IF HasBit(epoll_events, G_IO_IN) THEN G_IO_IN ELSE 0)
  + (IF HasBit(epoll_events, G_IO_OUT) THEN G_IO_OUT ELSE 0)
  + (IF HasBit(epoll_events, G_IO_PRI) THEN G_IO_PRI ELSE 0)
  + (IF HasBit(epoll_events, G_IO_ERR) THEN G_IO_ERR ELSE 0)
  + (IF HasBit(epoll_events, G_IO_HUP) THEN G_IO_HUP ELSE 0)

\* Grows one slot late.
g_epoll_context_ensure_ready_size_mut(fds, needed, junk) ==
  IF needed > Len(fds) + 1 THEN g_renew(fds, needed, junk) ELSE fds

g_epoll_context_ensure_ready_size(fds, needed, junk) ==
  IF needed > Len(fds) THEN g_renew(fds, needed, junk) ELSE fds

\* The orders in which a GHashTableIter may hand out the keys of a table.
IterOrders(tbl) ==
  {o \in [1..Cardinality(DOMAIN tbl) -> DOMAIN tbl] :
     \A i, j \in 1..Cardinality(DOMAIN tbl) : i # j => o[i] # o[j]}

\* g_epoll_context_query_compat_fds: with a nonempty table, make room and
\* write one slot per entry, in iteration order, revents cleared.
g_epoll_context_query_compat_fds(fds, tbl, order, junk) ==
  IF Len(order) = 0 THEN fds
  ELSE LET f == g_epoll_context_ensure_ready_size(fds, Len(order), junk)
       IN [i \in 1..Len(f) |->
             IF i <= Len(order) THEN GPollFD(order[i], tbl[order[i]]) ELSE f[i]]

\* g_poll (fds_ready, n_compat_fds, 0): > 0 with revents written ("ready"),
\* 0 with all revents cleared ("none"), or < 0 with nothing written.
CompatPolls(n) ==
  {<<"ready", S>> : S \in (SUBSET (1..n)) \ {{}}} \cup {<<"none", {}>>, <<"failed", {}>>}

\* Polls one entry fewer than the snapshot holds.
compat_poll_mut(fds, n, outcome, ready) ==
  IF n = 0 \/ outcome = "failed" THEN fds ELSE poll_revents(fds, n - 1, ready)

compat_poll(fds, n, outcome, ready) ==
  IF n = 0 \/ outcome = "failed" THEN fds ELSE poll_revents(fds, n, ready)

\* Replaces the forced zero timeout by the scheduler's deadline.
iterate_timeout_mut(block, n_compat_fds, outcome, deadline) ==
  IF block THEN deadline ELSE 0

\* if (g_poll (...) > 0) block = FALSE;  timeout = block ? deadline : 0
iterate_timeout(block, n_compat_fds, outcome, deadline) ==
  IF block /\ ~(n_compat_fds # 0 /\ outcome = "ready") THEN deadline ELSE 0

\* Passes the counter as it is.
epoll_wait_capacity_mut(nfds) == nfds

\* g_epoll_context_poll: a zero count becomes 1.
epoll_wait_capacity(nfds) == IF nfds = 0 THEN 1 ELSE nfds

\* The kernel masks epoll_wait may report for a registered descriptor: the
\* requested EPOLLIN, which the descriptors of ErrFDs report together with EPOLLERR
\* (EPOLLERR is reported whether requested or not).
ErrFDs == {2}
ReportableMasks(fd) ==
  {m \in {IF fd \in ErrFDs THEN G_IO_IN + G_IO_ERR ELSE G_IO_IN} : HasBit(epoll_fd[fd], G_IO_IN)}

\* What epoll_wait (epoll_fd, epoll_output, maxevents, timeout) may return:
\* up to maxevents events on distinct registered descriptors, in any order
\* (none only if the timeout is not -1), or a failure.
EpollWaitResults(maxevents, timeout) ==
  LET fdset == {fd \in DOMAIN epoll_fd : ReportableMasks(fd) # {}}
      ready == {S \in SUBSET fdset : Cardinality(S) <= maxevents /\ (S = {} => timeout # -1)}
      lists(S) == {o \in [1..Cardinality(S) -> S] :
                     \A i, j \in 1..Cardinality(S) : i # j => o[i] # o[j]}
      masks(S) == {m \in [S -> {G_IO_IN, G_IO_IN + G_IO_ERR}] :
                     \A fd \in S : m[fd] \in ReportableMasks(fd)}
  IN UNION {{[errno |-> "OK",
              events |-> [i \in 1..Cardinality(S) |-> [fd |-> o[i], events |-> m[o[i]]]]] :
               o \in lists(S), m \in masks(S)} : S \in ready}
     \cup {[errno |-> "EINTR", events |-> <<>>], [errno |-> "EINVAL", events |-> <<>>]}

\* Writes the kernel events from the start of the buffer.
append_epoll_output_mut(fds, n_compat_fds, events) ==
  [i \in 1..Len(fds) |->
     IF i <= Len(events)
       THEN [fd |-> events[i].fd,
             events |-> G_IO_IN + G_IO_OUT + G_IO_PRI,
             revents |-> g_io_condition_from_epoll_events(events[i].events),
             written |-> TRUE]
       ELSE fds[i]]

\* The kernel events appended behind the compatibility entries.
append_epoll_output(fds, n_compat_fds, events) ==
  [i \in 1..Len(fds) |->
     IF i > n_compat_fds /\ i <= n_compat_fds + Len(events)
       THEN [fd |-> events[i - n_compat_fds].fd,
             events |-> G_IO_IN + G_IO_OUT + G_IO_PRI,
             revents |-> g_io_condition_from_epoll_events(events[i - n_compat_fds].events),
             written |-> TRUE]
       ELSE fds[i]]

EpollIterate(aborted, block, deadline, order, outcome, ready, timeout, maxevents, res, n_ready) ==
  [op |-> IF aborted THEN "abort" ELSE "iterate", block |-> block, deadline |-> deadline,
   order |-> order, compat_poll |-> outcome, compat_ready |-> ready, timeout |-> timeout,
   maxevents |-> maxevents, errno |-> res.errno, events |-> res.events, n_ready |-> n_ready,
   warned |-> res.errno \notin {"OK", "EINTR"}]

Aborted == last.op = "abort"

g_epoll_context_iterate(max_priority, block, deadline, order, outcome, ready, junk, res) ==
  LET n_compat_fds == Len(order)
      fds1 == g_epoll_context_query_compat_fds(fds_ready, compat_fds, order, junk)
      fds2 == compat_poll(fds1, n_compat_fds, outcome, ready)
      timeout == iterate_timeout(block, n_compat_fds, outcome, deadline)
  IN /\ order \in IterOrders(compat_fds)
     /\ <<outcome, ready>> \in CompatPolls(n_compat_fds)
     /\ n_compat_fds = 0 => outcome = "none"
     /\ IF n_poll_records < 0
          \* nfds is the negative gint widened to gsize: epoll_output_size takes
          \* it (kept here as the signed pattern), g_renew overflows and aborts
          THEN /\ res = [errno |-> "OK", events |-> <<>>]
               /\ fds_ready' = fds2
               /\ checked' = NoCheck
               /\ last' = EpollIterate(TRUE, block, deadline, order, outcome, ready, timeout,
                                       epoll_wait_capacity(n_poll_records), res, 0)
               /\ epoll_output_size' = n_poll_records
          ELSE LET nfds == epoll_wait_capacity(n_poll_records)
                   n_ready == IF res.errno = "OK" THEN Len(res.events) ELSE 0
                   fds3 == g_epoll_context_ensure_ready_size(fds2, n_compat_fds + n_ready, junk)
               IN /\ res \in EpollWaitResults(nfds, timeout)
                  /\ epoll_output_size' = IF epoll_output_size < nfds THEN nfds
                                          ELSE epoll_output_size
                  /\ fds_ready' = append_epoll_output(fds3, n_compat_fds, res.events)
                  /\ checked' = [called |-> TRUE, max_priority |-> max_priority,
                                 nfds |-> n_compat_fds + n_ready]
                  /\ last' = EpollIterate(FALSE, block, deadline, order, outcome, ready,
                                          timeout, nfds, res, n_ready)
     /\ UNCHANGED <<poll_records, n_poll_records, epoll_fd, compat_fds, registered>>
     /\ UNCHANGED <<mutex, cached_poll_array, cached_poll_array_size, poll_changed, woken,
                    ipc, loc, raced, mpc>>
     /\ UNCHANGED evVars
     /\ UNCHANGED extVars

\* What the iterate cycles are driven with: the descriptors and the interest
\* mask of the registration calls, and what g_renew leaves in a new slot.
IterFDs == {1, 2, 3}
IterEventMasks == {G_IO_IN}
\* block, and the deadline g_main_context_get_poll_timeout returns when it
\* is asked (0 stands for "not asked").
BlockDeadlines == {<<FALSE, 0>>} \cup {<<TRUE, d>> : d \in Deadlines}
IterJunk == {j \in JunkSlots : j.fd # NULL}

NextEpollIter ==
  \/ \E fd \in IterFDs, events \in IterEventMasks, errno \in EpollErrnos :
       ~Aborted /\ g_epoll_context_add_fd(fd, events, errno)
  \/ \E fd \in IterFDs, events \in IterEventMasks, errno \in EpollErrnos :
       ~Aborted /\ g_epoll_context_modify_fd(fd, events, errno)
  \/ \E fd \in IterFDs, errno \in EpollErrnos :
       ~Aborted /\ g_epoll_context_remove_fd(fd, errno)
  \/ \E max_priority \in {0}, bd \in BlockDeadlines,
        order \in IterOrders(compat_fds), cp \in CompatPolls(Cardinality(DOMAIN compat_fds)),
        junk \in IterJunk :
       \E res \in IF n_poll_records < 0
                    THEN {[errno |-> "OK", events |-> <<>>]}
                    ELSE EpollWaitResults(epoll_wait_capacity(n_poll_records),
                                          iterate_timeout(bd[1], Len(order), cp[1], bd[2])) :
         ~Aborted /\ g_epoll_context_iterate(max_priority, bd[1], bd[2], order,
                                             cp[1], cp[2], junk, res)

SpecEpollIter == InitEpoll /\ [][NextEpollIter]_vars

\* C14: a compatibility-set descriptor that g_poll reported ready at the
\* start of an iterate cycle is inside the array handed to
\* g_main_context_check in that cycle, with its descriptor and the revents
\* g_poll wrote, as a written GPollFD like the kernel-managed entries.
C14_CompatReadyIsReported ==
  (last.op = "iterate" /\ last.compat_poll = "ready") =>
    \A i \in last.compat_ready :
      /\ checked.called
      /\ i <= checked.nfds
      /\ i <= Len(fds_ready)
      /\ fds_ready[i].written
      /\ fds_ready[i].fd = last.order[i]
      /\ fds_ready[i].fd \in DOMAIN compat_fds
      /\ fds_ready[i].revents = G_IO_IN

\* C14 witness: a cycle in which g_poll reported the regular file ready and
\* epoll_wait reported a kernel-managed descriptor; both are in the array.
C14_Witness ==
  /\ last.op = "iterate"
  /\ last.compat_poll = "ready"
  /\ last.compat_ready = {1}
  /\ last.n_ready = 1
  /\ checked.nfds = 2
  /\ fds_ready[1].fd \in NotPollable
  /\ fds_ready[1].revents = G_IO_IN
  /\ fds_ready[2].fd \notin NotPollable
  /\ fds_ready[2].revents # 0

\* C15: the timeout handed to epoll_wait is 0 whenever the zero-timeout
\* g_poll of the compatibility set reported a ready descriptor, whatever
\* block and the scheduler's deadline are; otherwise (nothing ready, g_poll
\* failed, or an empty set) it is the deadline if block and 0 if not.
C15_TimeoutForcedToZero ==
  last.op = "iterate" =>
    /\ last.compat_poll = "ready" => (Len(last.order) # 0 /\ last.timeout = 0)
    /\ (last.compat_poll # "ready" /\ last.block) => last.timeout = last.deadline
    /\ (last.compat_poll # "ready" /\ ~last.block) => last.timeout = 0

\* C15 witness: a blocking cycle without deadline whose g_poll found the
\* compatibility descriptor ready, so epoll_wait was called with 0.
C15_Witness ==
  /\ last.op = "iterate"
  /\ last.block
  /\ last.deadline = -1
  /\ last.compat_poll = "ready"
  /\ last.timeout = 0

C19_WaitCapacity ==
  last.op \in {"iterate", "abort"} =>
    /\ last.op = "iterate"
    /\ last.maxevents = (IF n_poll_records > 1 THEN n_poll_records ELSE 1)
    /\ last.maxevents >= 1
    /\ epoll_output_size >= last.maxevents

\* C18 (portable backend): when the poll function fails, iterate still
\* hands the array to the check step, and every entry below the count has
\* the revents 0 that query gave it.
C18_FailedPollReportsNothing ==
  (last.op = "iterate" /\ last.poll = "failed") =>
    /\ last.n_poll <= Len(cached_poll_array)
    /\ \A i \in 1..last.n_poll : cached_poll_array[i].revents = 0

\* C20: the count iterate passes to the poll function and the check step
\* never exceeds the allocated size of the cached array, the query loop of
\* one iterate call runs at most twice, and cached_poll_array_size never
\* decreases, whatever add_fd, remove_fd, modify_fd and reset do in between.
C20_BufferGrowsMonotonically ==
  /\ [](last.op = "iterate" =>
          /\ last.n_poll <= cached_poll_array_size
          /\ cached_poll_array_size = Len(cached_poll_array)
          /\ last.n_queries >= 1
          /\ last.n_queries <= 2)
  /\ [][cached_poll_array_size' >= cached_poll_array_size]_vars

\* C20 witness: an iterate call whose first query reported two records for
\* a smaller array, which was grown to two slots and queried again.
C20_Witness ==
  /\ last.op = "iterate"
  /\ last.n_queries = 2
  /\ last.n_poll = 2
  /\ cached_poll_array_size = 2

\* --------- kernel-notification backend: registration during a blocked wait
\* g_epoll_context_iterate runs in the loop thread and is inside epoll_wait
\* while ipc = "epoll_wait"; the registration calls come from other threads.

\* The locals of g_epoll_context_iterate that outlive the call of epoll_wait.
EpollLocals(max_priority, block, deadline, order, outcome, ready, timeout, nfds) ==
  [max_priority |-> max_priority, block |-> block, deadline |-> deadline, order |-> order,
   compat_poll |-> outcome, compat_ready |-> ready, timeout |-> timeout, nfds |-> nfds]

\* g_epoll_context_iterate from g_main_context_prepare to the call of
\* epoll_wait in g_epoll_context_poll.
epoll_iterate_begin(max_priority, block, deadline, order, outcome, ready, junk) ==
  LET n_compat_fds == Len(order)
      fds1 == g_epoll_context_query_compat_fds(fds_ready, compat_fds, order, junk)
      fds2 == compat_poll(fds1, n_compat_fds, outcome, ready)
      timeout == iterate_timeout(block, n_compat_fds, outcome, deadline)
      nfds == epoll_wait_capacity(n_poll_records)
      nores == [errno |-> "OK", events |-> <<>>]
  IN /\ ipc = "idle"
     /\ order \in IterOrders(compat_fds)
     /\ <<outcome, ready>> \in CompatPolls(n_compat_fds)
     /\ n_compat_fds = 0 => outcome = "none"
     /\ fds_ready' = fds2
     /\ IF n_poll_records < 0
          THEN /\ epoll_output_size' = n_poll_records
               /\ ipc' = "aborted"
               /\ last' = EpollIterate(TRUE, block, deadline, order, outcome, ready, timeout,
                                       nfds, nores, 0)
               /\ UNCHANGED loc
          ELSE /\ epoll_output_size' = IF epoll_output_size < nfds THEN nfds
                                       ELSE epoll_output_size
               /\ ipc' = "epoll_wait"
               /\ loc' = EpollLocals(max_priority, block, deadline, order, outcome, ready,
                                     timeout, nfds)
               /\ last' = [EpollIterate(FALSE, block, deadline, order, outcome, ready,
                                        timeout, nfds, nores, 0) EXCEPT !.op = "epoll_wait"]
     /\ UNCHANGED <<poll_records, n_poll_records, epoll_fd, compat_fds, registered>>
     /\ UNCHANGED <<mutex, cached_poll_array, cached_poll_array_size, poll_changed, woken,
                    raced, checked, mpc>>
     /\ UNCHANGED evVars
     /\ UNCHANGED extVars

\* epoll_wait returns; the events are appended and handed to
\* g_main_context_check.
epoll_wait_return(res, junk) ==
  LET n_compat_fds == Len(loc.order)
      n_ready == IF res.errno = "OK" THEN Len(res.events) ELSE 0
      fds3 == g_epoll_context_ensure_ready_size(fds_ready, n_compat_fds + n_ready, junk)
  IN /\ ipc = "epoll_wait"
     /\ fds_ready' = append_epoll_output(fds3, n_compat_fds, res.events)
     /\ checked' = [called |-> TRUE, max_priority |-> loc.max_priority,
                    nfds |-> n_compat_fds + n_ready]
     /\ last' = EpollIterate(FALSE, loc.block, loc.deadline, loc.order, loc.compat_poll,
                             loc.compat_ready, loc.timeout, loc.nfds, res, n_ready)
     /\ ipc' = "idle"
     /\ loc' = NoLocals
     /\ UNCHANGED <<poll_records, n_poll_records, epoll_fd, compat_fds, registered,
                    epoll_output_size>>
     /\ UNCHANGED <<mutex, cached_poll_array, cached_poll_array_size, poll_changed, woken,
                    raced, mpc>>
     /\ UNCHANGED evVars
     /\ UNCHANGED extVars

\* The environment of this part: every descriptor is readable all the time.
\* g_poll then reports every compatibility entry, and epoll_wait returns as
\* many events as its capacity and the interest list allow; with an empty
\* interest list it returns when the timeout runs out, with -1 never.
AllReadyPolls(n) == IF n = 0 THEN {<<"none", {}>>} ELSE {<<"ready", 1..n>>}

AllReadyWaitResults(maxevents, timeout) ==
  LET n == Cardinality({fd \in DOMAIN epoll_fd : ReportableMasks(fd) # {}})
  IN {r \in EpollWaitResults(maxevents, timeout) :
        /\ r.errno = "OK"
        /\ Len(r.events) = (IF n < maxevents THEN n ELSE maxevents)}

EpollWaitFailures == {[errno |-> e, events |-> <<>>] : e \in {"EINTR", "EINVAL"}}

EpollIterateBegin ==
  \E bd \in BlockDeadlines, order \in IterOrders(compat_fds), junk \in IterJunk :
    \E cp \in AllReadyPolls(Len(order)) :
      epoll_iterate_begin(0, bd[1], bd[2], order, cp[1], cp[2], junk)

EpollWaitEvents ==
  /\ ipc = "epoll_wait"
  /\ \E res \in AllReadyWaitResults(loc.nfds, loc.timeout), junk \in IterJunk :
       epoll_wait_return(res, junk)

\* A signal or another failure ends the wait.
EpollWaitFails ==
  \E res \in EpollWaitFailures, junk \in IterJunk : epoll_wait_return(res, junk)

NextEpollWait ==
  \/ \E fd \in IterFDs, events \in IterEventMasks, errno \in EpollErrnos :
       g_epoll_context_add_fd(fd, events, errno)
  \/ \E fd \in IterFDs, events \in IterEventMasks, errno \in EpollErrnos :
       g_epoll_context_modify_fd(fd, events, errno)
  \/ EpollIterateBegin
  \/ EpollWaitEvents
  \/ EpollWaitFails

\* The loop thread keeps running iterate, and an epoll_wait that has events
\* to return is not interrupted by a signal every time; nothing obliges a
\* signal or a registration call to happen.
SpecEpollWait ==
  /\ InitEpoll
  /\ [][NextEpollWait]_vars
  /\ WF_vars(EpollIterateBegin)
  /\ SF_vars(EpollWaitEvents)

\* add_fd returned TRUE for fd while iterate was inside epoll_wait without
\* a timeout.
AddedWhileBlocked(fd) ==
  /\ ipc = "epoll_wait"
  /\ loc.timeout = -1
  /\ last.op = "add_fd"
  /\ last.fd = fd
  /\ last.retval

\* An iterate cycle has just handed fd to the check step with revents set.
ReportedReady(fd) ==
  /\ last.op = "iterate"
  /\ checked.called
  /\ \E i \in 1..checked.nfds : fds_ready[i].fd = fd /\ fds_ready[i].revents # 0

\* C17: a readable descriptor that add_fd registered while iterate was
\* blocked in epoll_wait without a timeout is eventually reported by
\* iterate, with no signal, other event or wake-up needed, whether it went
\* to the kernel's interest list or to the compatibility set.
C17_AddedWhileBlockedIsReported ==
  \A fd \in IterFDs : AddedWhileBlocked(fd) ~> ReportedReady(fd)

\* The kernel-managed half of C17.
KernelAddedWhileBlockedIsReported ==
  \A fd \in IterFDs :
    (AddedWhileBlocked(fd) /\ fd \in DOMAIN epoll_fd) ~> ReportedReady(fd)

\* ------------------------------------------------ GEventContext: lifetime
\* Largest value the reference count is driven to.
MaxRefCount == 3

\* What a GEventContext call did: the count its precondition observed and
\* whether g_return_if_fail fired.
EvCall(op, t, observed, flagged) ==
  [op |-> op, thread |-> t, observed |-> observed, flagged |-> flagged]

\* Accepts a count of zero.
ref_count_ok_mut(observed) == observed >= 0

\* g_return_if_fail (g_atomic_int_get (&context->priv->ref_count) > 0)
ref_count_ok(observed) == observed > 0

\* g_event_context_new (funcs, struct_size) has returned to thread 1: both
\* blocks allocated, the count 1, the mutex initialised.
InitEvent ==
  /\ poll_records = <<>>
  /\ n_poll_records = 0
  /\ last = NoCall
  /\ InitCtx
  /\ ref_count = 1
  /\ priv_mutex = Mutex("free")
  /\ heap = {"context", "priv"}
  /\ n_finalize = 0
  /\ tpc = [t \in Threads |-> Idle]
  /\ holds = [t \in Threads |-> IF t = 1 THEN 1 ELSE 0]
  /\ initialised = 0
  /\ default_event_context = NULL

\* g_event_context_ref up to the precondition.
g_event_context_ref_enter(t, observed) ==
  /\ tpc[t] = Idle
  /\ tpc' = [tpc EXCEPT ![t] = IF ref_count_ok(observed) THEN At("ref", "inc") ELSE Idle]
  /\ last' = EvCall("ref", t, observed, ~ref_count_ok(observed))
  /\ UNCHANGED <<ref_count, priv_mutex, heap, n_finalize, holds, initialised,
                 default_event_context>>
  /\ UNCHANGED <<poll_records, n_poll_records, ctxVars, epollVars>>
  /\ UNCHANGED extVars

\* g_atomic_int_inc (&context->priv->ref_count); the caller owns one more
\* reference.
g_event_context_ref_inc(t) ==
  /\ tpc[t] = At("ref", "inc")
  /\ ref_count' = ref_count + 1
  /\ holds' = [holds EXCEPT ![t] = @ + 1]
  /\ tpc' = [tpc EXCEPT ![t] = Idle]
  /\ UNCHANGED <<priv_mutex, heap, n_finalize, initialised, default_event_context>>
  /\ UNCHANGED <<storeVars, ctxVars, epollVars>>
  /\ UNCHANGED extVars

\* g_event_context_unref up to the precondition.
g_event_context_unref_enter(t, observed) ==
  /\ tpc[t] = Idle
  /\ tpc' = [tpc EXCEPT ![t] = IF ref_count_ok(observed) THEN At("unref", "dec") ELSE Idle]
  /\ last' = EvCall("unref", t, observed, ~ref_count_ok(observed))
  /\ UNCHANGED <<ref_count, priv_mutex, heap, n_finalize, holds, initialised,
                 default_event_context>>
  /\ UNCHANGED <<poll_records, n_poll_records, ctxVars, epollVars>>
  /\ UNCHANGED extVars

\* Goes on to finalize whatever the decrement leaves.
g_event_context_unref_dec_mut(t) ==
  /\ tpc[t] = At("unref", "dec")
  /\ ref_count' = ref_count - 1
  /\ holds' = [holds EXCEPT ![t] = IF @ > 0 THEN @ - 1 ELSE 0]
  /\ tpc' = [tpc EXCEPT ![t] = At("unref", "finalize")]
  /\ UNCHANGED <<priv_mutex, heap, n_finalize, initialised, default_event_context>>
  /\ UNCHANGED <<storeVars, ctxVars, epollVars>>
  /\ UNCHANGED extVars

\* if (!g_atomic_int_dec_and_test (&priv->ref_count)) return;
g_event_context_unref_dec(t) ==
  /\ tpc[t] = At("unref", "dec")
  /\ ref_count' = ref_count - 1
  /\ holds' = [holds EXCEPT ![t] = IF @ > 0 THEN @ - 1 ELSE 0]
  /\ tpc' = [tpc EXCEPT ![t] = IF ref_count' = 0 THEN At("unref", "finalize") ELSE Idle]
  /\ UNCHANGED <<priv_mutex, heap, n_finalize, initialised, default_event_context>>
  /\ UNCHANGED <<storeVars, ctxVars, epollVars>>
  /\ UNCHANGED extVars

\* context->funcs->finalize (context)
unref_finalize(t) ==
  /\ tpc[t] = At("unref", "finalize")
  /\ n_finalize' = n_finalize + 1
  /\ tpc' = [tpc EXCEPT ![t] = At("unref", "mutex_clear")]
  /\ last' = EvCall("finalize", t, ref_count, FALSE)
  /\ UNCHANGED <<ref_count, priv_mutex, heap, holds, initialised, default_event_context>>
  /\ UNCHANGED <<poll_records, n_poll_records, ctxVars, epollVars>>
  /\ UNCHANGED extVars

\* g_mutex_clear (&priv->mutex)
unref_mutex_clear(t) ==
  /\ tpc[t] = At("unref", "mutex_clear")
  /\ priv_mutex' = Mutex("cleared")
  /\ tpc' = [tpc EXCEPT ![t] = At("unref", "free")]
  /\ UNCHANGED <<ref_count, heap, n_finalize, holds, initialised, default_event_context>>
  /\ UNCHANGED <<storeVars, ctxVars, epollVars>>
  /\ UNCHANGED extVars

\* g_slice_free1 (priv->struct_size, context); g_slice_free (GEventContextPrivate, priv)
unref_free(t) ==
  /\ tpc[t] = At("unref", "free")
  /\ heap' = heap \ {"context", "priv"}
  /\ tpc' = [tpc EXCEPT ![t] = Idle]
  /\ UNCHANGED <<ref_count, priv_mutex, n_finalize, holds, initialised, default_event_context>>
  /\ UNCHANGED <<storeVars, ctxVars, epollVars>>
  /\ UNCHANGED extVars

\* _g_event_context_add_poll / _g_event_context_remove_poll up to the two
\* preconditions; fd is NULL or a descriptor.
g_event_context_poll_enter(t, op, fd, observed) ==
  /\ tpc[t] = Idle
  /\ tpc' = [tpc EXCEPT ![t] = IF ref_count_ok(observed) /\ fd # NULL
                                 THEN At(op, "lock") ELSE Idle]
  /\ last' = EvCall(op, t, observed, ~(ref_count_ok(observed) /\ fd # NULL))
  /\ UNCHANGED <<ref_count, priv_mutex, heap, n_finalize, holds, initialised,
                 default_event_context>>
  /\ UNCHANGED <<poll_records, n_poll_records, ctxVars, epollVars>>
  /\ UNCHANGED extVars

\* Takes the mutex without waiting for it.
LOCK_CONTEXT_mut(t) ==
  /\ tpc[t].pc = "lock"
  /\ priv_mutex' = HeldBy(t)
  /\ tpc' = [tpc EXCEPT ![t] = At(tpc[t].op, "vtable")]
  /\ UNCHANGED <<ref_count, heap, n_finalize, holds, initialised, default_event_context>>
  /\ UNCHANGED <<storeVars, ctxVars, epollVars>>
  /\ UNCHANGED extVars

\* g_mutex_lock (&context->priv->mutex); locking a cleared mutex is undefined
\* and is taken here to succeed.
LOCK_CONTEXT(t) ==
  /\ tpc[t].pc = "lock"
  /\ priv_mutex \in {Mutex("free"), Mutex("cleared")}
  /\ priv_mutex' = HeldBy(t)
  /\ tpc' = [tpc EXCEPT ![t] = At(tpc[t].op, "vtable")]
  /\ UNCHANGED <<ref_count, heap, n_finalize, holds, initialised, default_event_context>>
  /\ UNCHANGED <<storeVars, ctxVars, epollVars>>
  /\ UNCHANGED extVars

\* context->funcs->add_poll (context, fd) / context->funcs->remove_poll
\* (context, fd); the call records who owned the mutex when it ran.
g_event_context_poll_unlocked(t) ==
  /\ tpc[t].pc = "vtable"
  /\ last' = [op |-> tpc[t].op, thread |-> t, observed |-> ref_count,
              flagged |-> FALSE, owner |-> priv_mutex]
  /\ tpc' = [tpc EXCEPT ![t] = At(tpc[t].op, "unlock")]
  /\ UNCHANGED <<ref_count, priv_mutex, heap, n_finalize, holds, initialised,
                 default_event_context>>
  /\ UNCHANGED <<poll_records, n_poll_records, ctxVars, epollVars>>
  /\ UNCHANGED extVars

\* g_mutex_unlock (&context->priv->mutex)
UNLOCK_CONTEXT(t) ==
  /\ tpc[t].pc = "unlock"
  /\ priv_mutex' = Mutex("free")
  /\ tpc' = [tpc EXCEPT ![t] = Idle]
  /\ UNCHANGED <<ref_count, heap, n_finalize, holds, initialised, default_event_context>>
  /\ UNCHANGED <<storeVars, ctxVars, epollVars>>
  /\ UNCHANGED extVars

\* A thread hands one of its references to another thread.
give_reference(t, u) ==
  /\ t # u
  /\ tpc[t] = Idle
  /\ holds[t] > 0
  /\ holds' = [holds EXCEPT ![t] = @ - 1, ![u] = @ + 1]
  /\ UNCHANGED <<ref_count, priv_mutex, heap, n_finalize, tpc, initialised,
                 default_event_context>>
  /\ UNCHANGED <<storeVars, ctxVars, epollVars>>
  /\ UNCHANGED extVars

PollOps == {"add_poll", "remove_poll"}

\* Calls made by a thread that owns a reference.
EvRefEnter ==
  \E t \in Threads :
    /\ holds[t] > 0
    /\ ref_count < MaxRefCount
    /\ g_event_context_ref_enter(t, ref_count)
EvRefInc == \E t \in Threads : g_event_context_ref_inc(t)
EvUnrefEnter ==
  \E t \in Threads : holds[t] > 0 /\ g_event_context_unref_enter(t, ref_count)
EvUnrefDec == \E t \in Threads : g_event_context_unref_dec(t)
EvFinalize == \E t \in Threads : unref_finalize(t)
EvMutexClear == \E t \in Threads : unref_mutex_clear(t)
EvFree == \E t \in Threads : unref_free(t)
EvPollEnter ==
  \E t \in Threads, op \in PollOps, fd \in {NULL} \cup FDs :
    holds[t] > 0 /\ g_event_context_poll_enter(t, op, fd, ref_count)
EvLock == \E t \in Threads : LOCK_CONTEXT(t)
EvVtable == \E t \in Threads : g_event_context_poll_unlocked(t)
EvUnlock == \E t \in Threads : UNLOCK_CONTEXT(t)
EvGive == \E t, u \in Threads : give_reference(t, u)

NextEventRef ==
  \/ EvRefEnter
  \/ EvRefInc
  \/ EvUnrefEnter
  \/ EvUnrefDec
  \/ EvFinalize
  \/ EvMutexClear
  \/ EvFree
  \/ EvPollEnter
  \/ EvLock
  \/ EvVtable
  \/ EvUnlock
  \/ EvGive

SpecEventRef == InitEvent /\ [][NextEventRef]_vars

\* C21: with every ref and unref made by a thread that owns a reference,
\* finalize runs at most once, it is run by the unref whose decrement took
\* the count from one to zero, and once every reference has been dropped and
\* every call has returned it has run exactly once.
C21_FinalizeExactlyOnce ==
  [][/\ n_finalize' <= 1
     /\ (n_finalize' # n_finalize) => (ref_count = 0 /\ n_finalize = 0)
     /\ \A t \in Threads :
          (tpc'[t] = At("unref", "finalize") /\ tpc[t] # tpc'[t])
            => (tpc[t] = At("unref", "dec") /\ ref_count = 1 /\ ref_count' = 0)
     /\ (\A t \in Threads : holds'[t] = 0 /\ tpc'[t] = Idle) => n_finalize' = 1]_vars

\* Thread 2 was given a reference and its unref ran finalize.
C21_Witness ==
  /\ n_finalize = 1
  /\ last.op = "finalize"
  /\ last.thread = 2
  /\ ref_count = 0

\* C22: while any thread owns a reference the count is above zero, finalize
\* has not run, the mutex has not been cleared and both blocks of the context
\* are still allocated.
C22_NotFreedWhileHeld ==
  (\E t \in Threads : holds[t] > 0)
    => /\ ref_count > 0
       /\ n_finalize = 0
       /\ priv_mutex.state # "cleared"
       /\ heap = {"context", "priv"}

\* Thread 1 has dropped its last reference with unref while thread 2 still
\* owns one.
C22_Witness ==
  /\ holds[1] = 0
  /\ tpc[1] = Idle
  /\ last.op = "unref"
  /\ last.thread = 1
  /\ holds[2] > 0
  /\ ref_count = holds[2]

\* C25: a thread inside the vtable add_poll/remove_poll owns the mutex of the
\* handle, so at most one thread is inside at a time; a thread that has
\* returned does not own the mutex, and the mutex is unlocked whenever no
\* thread is between LOCK_CONTEXT and UNLOCK_CONTEXT.
C25_VtableUnderMutex ==
  /\ \A t \in Threads : tpc[t].pc = "vtable" => priv_mutex = HeldBy(t)
  /\ Cardinality({t \in Threads : tpc[t].pc = "vtable"}) <= 1
  /\ \A t \in Threads : tpc[t] = Idle => priv_mutex # HeldBy(t)
  /\ (\A t \in Threads : tpc[t].pc \notin {"vtable", "unlock"})
       => priv_mutex.state # "held"
  /\ (last.op \in PollOps /\ ~last.flagged /\ "owner" \in DOMAIN last)
       => last.owner = HeldBy(last.thread)

\* Thread 2 is inside the vtable add_poll while thread 1 waits in
\* LOCK_CONTEXT of remove_poll.
C25_Witness ==
  /\ tpc[2] = At("add_poll", "vtable")
  /\ tpc[1] = At("remove_poll", "lock")
  /\ priv_mutex = HeldBy(2)

\* ------------------------------------- GEventContext: calls without a reference
\* Most finalize runs the stale calls are followed to.
MaxFinalize == 2

\* What a read of freed memory may return in place of the count.
FreedReads == {-1, 0, 1}

\* The values g_atomic_int_get (&context->priv->ref_count) may return: the
\* count while the private block is allocated, anything once it is freed.
ObservedCounts ==
  IF "priv" \in heap THEN {ref_count} ELSE {ref_count} \cup FreedReads

\* The calls are followed while the count and the finalize runs are in range.
StaleInRange ==
  /\ ref_count < MaxRefCount
  /\ ref_count > -MaxRefCount
  /\ n_finalize < MaxFinalize

\* Calls by any thread, whether or not it owns a reference.
EvAnyRefEnter ==
  \E t \in Threads, observed \in ObservedCounts :
    StaleInRange /\ holds[t] < MaxRefCount /\ g_event_context_ref_enter(t, observed)
EvAnyUnrefEnter ==
  \E t \in Threads, observed \in ObservedCounts :
    StaleInRange /\ g_event_context_unref_enter(t, observed)
EvAnyPollEnter ==
  \E t \in Threads, op \in PollOps, fd \in {NULL} \cup FDs, observed \in ObservedCounts :
    StaleInRange /\ g_event_context_poll_enter(t, op, fd, observed)

NextEventStale ==
  \/ EvAnyRefEnter
  \/ EvRefInc
  \/ EvAnyUnrefEnter
  \/ EvUnrefDec
  \/ EvFinalize
  \/ EvMutexClear
  \/ EvFree
  \/ EvAnyPollEnter
  \/ EvLock
  \/ EvVtable
  \/ EvUnlock

SpecEventStale == InitEvent /\ [][NextEventStale]_vars

\* C23: a call whose precondition observes a count of zero or less is flagged
\* and returns at once, leaving the count, the finalize runs, the mutex, the
\* blocks and every thread where they were; no thread gets past the
\* precondition of ref, unref, add_poll or remove_poll without having
\* observed a positive count, and the count and the finalize runs change only
\* in a thread that is past it.
C23_NonPositiveCountHasNoEffect ==
  [][/\ \A t \in Threads :
          (tpc[t] = Idle /\ tpc'[t] # Idle)
            => (last'.thread = t /\ last'.observed > 0 /\ ~last'.flagged)
     /\ (last' # last /\ last'.op \in {"ref", "unref"} \cup PollOps
         /\ last'.observed <= 0 /\ tpc[last'.thread] = Idle)
          => /\ last'.flagged
             /\ UNCHANGED <<ref_count, n_finalize, priv_mutex, heap, tpc, holds>>
     /\ (ref_count' # ref_count \/ n_finalize' # n_finalize)
          => \E t \in Threads : tpc[t] # Idle /\ tpc'[t] # tpc[t]]_vars

\* add_poll is called after the context was finalized and freed, observes a
\* count of zero and is flagged.
C23_Witness ==
  /\ last.op = "add_poll"
  /\ last.flagged
  /\ last.observed <= 0
  /\ n_finalize = 1
  /\ heap = {}
  /\ \A t \in Threads : tpc[t] = Idle

\* ------------------------------------------ GEventContext: the default context
\* The address of the context block, as opposed to NULL.
ContextHandle == 1

\* The steps of g_event_context_default between g_once_init_enter and
\* g_once_init_leave.
OnceSection == {"new", "epoll_create", "leave"}

\* The calls that go through g_event_context_default: the accessor itself and
\* add_poll / remove_poll with a NULL context.
DefaultOps == {"default"} \cup PollOps

\* Nothing has called g_event_context_default yet.
InitDefault ==
  /\ poll_records = <<>>
  /\ n_poll_records = 0
  /\ last = NoCall
  /\ InitCtx
  /\ NoContext

\* if (g_once_init_enter (&initialised)): taken by the first caller, skipped
\* once initialised is set; a caller that finds another thread inside waits.
g_once_init_enter(t, op) ==
  /\ tpc[t] = Idle
  /\ \/ /\ initialised # 0
        /\ tpc' = [tpc EXCEPT ![t] = At(op, "return")]
     \/ /\ initialised = 0
        /\ \A u \in Threads : tpc[u].pc \notin OnceSection
        /\ tpc' = [tpc EXCEPT ![t] = At(op, "new")]
  /\ UNCHANGED <<ref_count, priv_mutex, heap, n_finalize, holds, initialised,
                 default_event_context>>
  /\ UNCHANGED <<storeVars, ctxVars, epollVars>>
  /\ UNCHANGED extVars

\* g_epoll_event_context_new: context = g_event_context_new
\* (&g_epoll_context_funcs, sizeof (GEpollContext)), which allocates the
\* context and its private block, sets the count to 1 and initialises the
\* mutex.
g_event_context_new(t) ==
  /\ tpc[t].pc = "new"
  /\ heap' = heap \cup {"context", "priv"}
  /\ ref_count' = 1
  /\ priv_mutex' = Mutex("free")
  /\ tpc' = [tpc EXCEPT ![t] = At(tpc[t].op, "epoll_create")]
  /\ UNCHANGED <<n_finalize, holds, initialised, default_event_context>>
  /\ UNCHANGED <<storeVars, ctxVars, epollVars>>
  /\ UNCHANGED extVars

\* g_epoll_event_context_new from epoll_create on, and the assignment of its
\* result to default_event_context.  On failure only the context block is
\* freed and NULL is returned; on success the hash table is created.
g_epoll_event_context_new(t, created) ==
  /\ tpc[t].pc = "epoll_create"
  /\ IF created
     THEN /\ heap' = heap \cup {"epoll_fd", "poll_records"}
          /\ default_event_context' = ContextHandle
     ELSE /\ heap' = heap \ {"context"}
          /\ default_event_context' = NULL
  /\ last' = [op |-> "new", thread |-> t, observed |-> ref_count,
              flagged |-> ~created, handle |-> default_event_context']
  /\ tpc' = [tpc EXCEPT ![t] = At(tpc[t].op, "leave")]
  /\ UNCHANGED <<ref_count, priv_mutex, n_finalize, holds, initialised>>
  /\ UNCHANGED <<poll_records, n_poll_records, ctxVars, epollVars>>
  /\ UNCHANGED extVars

\* g_once_init_leave (&initialised, TRUE)
g_once_init_leave(t) ==
  /\ tpc[t].pc = "leave"
  /\ initialised' = 1
  /\ tpc' = [tpc EXCEPT ![t] = At(tpc[t].op, "return")]
  /\ UNCHANGED <<ref_count, priv_mutex, heap, n_finalize, holds, default_event_context>>
  /\ UNCHANGED <<storeVars, ctxVars, epollVars>>
  /\ UNCHANGED extVars

\* return default_event_context; to the caller of the accessor.
g_event_context_default(t) ==
  /\ tpc[t] = At("default", "return")
  /\ last' = [op |-> "default", thread |-> t, observed |-> ref_count,
              flagged |-> FALSE, handle |-> default_event_context]
  /\ tpc' = [tpc EXCEPT ![t] = Idle]
  /\ UNCHANGED <<ref_count, priv_mutex, heap, n_finalize, holds, initialised,
                 default_event_context>>
  /\ UNCHANGED <<poll_records, n_poll_records, ctxVars, epollVars>>
  /\ UNCHANGED extVars

\* _g_event_context_add_poll / _g_event_context_remove_poll with a NULL
\* context, from the return of g_event_context_default to the preconditions:
\* context->priv is read through the pointer that came back, which faults
\* when it is NULL.
g_event_context_poll_default(t, fd) ==
  /\ tpc[t].pc = "return"
  /\ tpc[t].op \in PollOps
  /\ IF default_event_context = NULL
     THEN /\ tpc' = [tpc EXCEPT ![t] = At(tpc[t].op, "null_deref")]
          /\ last' = [op |-> tpc[t].op, thread |-> t, observed |-> 0,
                      flagged |-> FALSE, handle |-> NULL]
     ELSE /\ tpc' = [tpc EXCEPT ![t] = IF ref_count_ok(ref_count) /\ fd # NULL
                                         THEN At(tpc[t].op, "lock") ELSE Idle]
          /\ last' = [op |-> tpc[t].op, thread |-> t, observed |-> ref_count,
                      flagged |-> ~(ref_count_ok(ref_count) /\ fd # NULL),
                      handle |-> default_event_context]
  /\ UNCHANGED <<ref_count, priv_mutex, heap, n_finalize, holds, initialised,
                 default_event_context>>
  /\ UNCHANGED <<poll_records, n_poll_records, ctxVars, epollVars>>
  /\ UNCHANGED extVars

DefOnceEnter == \E t \in Threads, op \in DefaultOps : g_once_init_enter(t, op)
DefNew == \E t \in Threads : g_event_context_new(t)
DefEpollNew == \E t \in Threads, created \in BOOLEAN : g_epoll_event_context_new(t, created)
DefOnceLeave == \E t \in Threads : g_once_init_leave(t)
DefReturn == \E t \in Threads : g_event_context_default(t)
DefPoll == \E t \in Threads, fd \in {NULL} \cup FDs : g_event_context_poll_default(t, fd)

NextEventDefault ==
  \/ DefOnceEnter
  \/ DefNew
  \/ DefEpollNew
  \/ DefOnceLeave
  \/ DefReturn
  \/ DefPoll
  \/ EvLock
  \/ EvVtable
  \/ EvUnlock

SpecEventDefault == InitDefault /\ [][NextEventDefault]_vars

\* C24: at most one thread is ever constructing the default context; once
\* the accessor is initialised a default context exists, every call of the
\* accessor returns its handle, and add_poll / remove_poll with no handle get
\* that handle to work on.
C24_DefaultConstructedOnce ==
  /\ Cardinality({t \in Threads : tpc[t].pc \in OnceSection}) <= 1
  /\ initialised # 0
       => (default_event_context = ContextHandle /\ {"context", "priv"} \subseteq heap)
  /\ (last.op = "default" /\ "handle" \in DOMAIN last) => last.handle = ContextHandle
  /\ \A t \in Threads : tpc[t].pc # "null_deref"

\* The part of C24 about concurrent first calls: a thread starts constructing
\* only while initialised is unset and no other thread is constructing,
\* initialised is never unset again, the default handle never changes once
\* initialised is set, and every call returns the handle stored then.
DefaultConstructedAtMostOnce ==
  [][/\ \A t \in Threads :
          (tpc'[t].pc = "new" /\ tpc[t].pc # "new")
            => (initialised = 0 /\ \A u \in Threads : tpc[u].pc \notin OnceSection)
     /\ initialised # 0
          => (initialised' # 0 /\ default_event_context' = default_event_context)
     /\ (last' # last /\ last'.op = "default")
          => (initialised # 0 /\ last'.handle = default_event_context)]_vars

\* C26: when epoll_create fails, the constructor returns NULL and nothing it
\* allocated is left: no context block, no private block, no initialised
\* mutex.
C26_FailedConstructorLeavesNothing ==
  \A t \in Threads :
    (tpc[t].pc = "leave" /\ default_event_context = NULL)
      => /\ last.handle = NULL
         /\ heap = {}
         /\ priv_mutex.state \in {"none", "cleared"}

\* --------------------------------- scenario: A (priority 0), B (priority 10)
\* Descriptor A is a socket (1) or a regular file (3), descriptor B a socket
\* (2) or a regular file (4); the portable backend is given the sockets.
ScA == {1, 3}
ScB == {2, 4}
ScPriority(fd) == IF fd \in ScA THEN 0 ELSE 10
\* What g_main_context_prepare may return as max_priority.
ScMaxPriorities == {0, 10}

\* A run uses one backend: the other one has not been touched.
PortableUnused == poll_records = <<>> /\ mpc = "idle" /\ ipc = "idle"
EpollUnused == registered = {}

\* The entries of a snapshot that belong to B: the only ones that are readable.
ReadableEntries(fds, nfds) == {i \in 1..nfds : fds[i].fd \in ScB}

\* Portable backend: A and B are registered, in either order.
ScLock == EpollUnused /\ ipc = "idle" /\ Len(poll_records) < 2 /\ ctx_lock
ScAddFd ==
  \E fd \in {1, 2} :
    /\ \A i \in 1..Len(poll_records) : poll_records[i].fd # fd
    /\ g_poll_context_add_fd(fd, G_IO_IN, ScPriority(fd))
ScWakeup == g_main_context_wakeup

\* Portable backend: blocking iterate cycles once both are registered; poll
\* reports B when B is among the entries it was given, and otherwise returns
\* on the wake signal or the timeout.
ScIterateLock == Len(poll_records) = 2 /\ mpc = "idle" /\ iterate_lock(TRUE)
ScPrepare == \E max_priority \in ScMaxPriorities : g_main_context_prepare(max_priority)
ScGetPollTimeout == \E timeout \in Timeouts : g_main_context_get_poll_timeout(timeout)
ScPollReady == poll_ready(ReadableEntries(cached_poll_array, loc.nfds))
ScPollNothing ==
  /\ ReadableEntries(cached_poll_array, loc.nfds) = {}
  /\ poll_woken_or_timeout

\* Kernel-notification backend: A and B are registered, in either order; the
\* regular files are refused with EPERM and go to the compatibility set.
ScEpollAddFd ==
  \E fd \in ScA \cup ScB, errno \in {"OK", "EPERM"} :
    /\ PortableUnused
    /\ (fd \in ScA) => registered \cap ScA = {}
    /\ (fd \in ScB) => registered \cap ScB = {}
    /\ g_epoll_context_add_fd(fd, G_IO_IN, errno)

\* Kernel-notification backend: a blocking iterate once both are
\* registered; g_poll and epoll_wait report B and nothing else.
ScEpollIterate ==
  \E deadline \in Deadlines, order \in IterOrders(compat_fds), junk \in IterJunk :
    LET n == Len(order)
        ready == {i \in 1..n : order[i] \in ScB}
        outcome == IF ready = {} THEN "none" ELSE "ready"
    IN \E res \in EpollWaitResults(epoll_wait_capacity(n_poll_records),
                                    iterate_timeout(TRUE, n, outcome, deadline)) :
         /\ PortableUnused
         /\ Cardinality(registered) = 2
         /\ res.errno = "OK"
         /\ {res.events[i].fd : i \in 1..Len(res.events)} = DOMAIN epoll_fd \cap ScB
         /\ \E max_priority \in ScMaxPriorities :
              g_epoll_context_iterate(max_priority, TRUE, deadline, order, outcome, ready,
                                      junk, res)

NextScenario ==
  \/ ScLock
  \/ ScAddFd
  \/ ScWakeup
  \/ ScIterateLock
  \/ iterate_cache_init
  \/ iterate_read_cache
  \/ ScPrepare
  \/ query_begin
  \/ query_step
  \/ query_end
  \/ ScGetPollTimeout
  \/ poll_lock
  \/ poll_unlock
  \/ ScPollReady
  \/ ScPollNothing
  \/ postpoll_lock
  \/ iterate_return
  \/ ScEpollAddFd
  \/ ScEpollIterate

SpecScenario == InitPollCtx /\ [][NextScenario]_vars

\* The array handed to g_main_context_check by the last iterate.
HandedArray ==
  IF "fds" \in DOMAIN checked
    THEN SubSeq(checked.fds, 1, checked.nfds)
    ELSE SubSeq(fds_ready, 1, checked.nfds)

\* C27 as stated: the array handed to the check step is exactly one entry,
\* for B with readable observed, and has no entry for A.
C27_ArrayIsExactlyB ==
  checked.called
    => /\ Len(HandedArray) = 1
       /\ HandedArray[1].fd \in ScB
       /\ HasBit(HandedArray[1].revents, G_IO_IN)

\* C27 amended: the array handed to the check step reports exactly B: every
\* entry is for A or B, no entry for A has anything observed, and B has an
\* entry with readable observed (in the portable backend when max_priority
\* is at least B's priority); the kernel-notification backend hands over no
\* entry for a kernel-managed A at all.
C27_ArrayReportsExactlyB ==
  checked.called
    => /\ \A i \in 1..Len(HandedArray) :
            /\ HandedArray[i].fd \in ScA \cup ScB
            /\ HandedArray[i].fd \in ScA => HandedArray[i].revents = 0
       /\ ("fds" \notin DOMAIN checked \/ checked.max_priority >= 10)
            => \E i \in 1..Len(HandedArray) :
                 HandedArray[i].fd \in ScB /\ HasBit(HandedArray[i].revents, G_IO_IN)
       /\ "fds" \notin DOMAIN checked
            => \A i \in 1..Len(HandedArray) : HandedArray[i].fd \notin DOMAIN epoll_fd \cap ScA

\* The portable backend has handed over both entries, A's with nothing
\* observed and B's readable.
C27_Witness ==
  /\ checked.called
  /\ "fds" \in DOMAIN checked
  /\ checked.max_priority = 10
  /\ Len(HandedArray) = 2
  /\ HandedArray[1].fd = 1
  /\ HandedArray[1].revents = 0
  /\ HandedArray[2].fd = 2
  /\ HandedArray[2].revents = G_IO_IN

\* C28: the portable backend hands the check step the records whose
\* priority does not exceed max_priority and no others; the
\* kernel-notification backend hands over the compatibility snapshot with
\* what g_poll wrote, followed by the events epoll_wait returned, whatever
\* the priorities of the descriptors and whatever max_priority is.
C28_PriorityEnforcedOnlyByPortable ==
  checked.called
    => IF "fds" \in DOMAIN checked
         THEN /\ \A i \in 1..Len(HandedArray) :
                   ScPriority(HandedArray[i].fd) <= checked.max_priority
              /\ \A k \in 1..Len(poll_records) :
                   poll_records[k].priority <= checked.max_priority
                     => \E i \in 1..Len(HandedArray) : HandedArray[i].fd = poll_records[k].fd
         ELSE LET n == Len(last.order)
              IN /\ Len(HandedArray) = n + Len(last.events)
                 /\ \A i \in 1..n :
                      HandedArray[i] =
                        [fd |-> last.order[i], events |-> compat_fds[last.order[i]],
                         revents |-> IF i \in last.compat_ready THEN G_IO_IN ELSE 0,
                         written |-> TRUE]
                 /\ \A k \in 1..Len(last.events) :
                      HandedArray[n + k] =
                        [fd |-> last.events[k].fd,
                         events |-> G_IO_IN + G_IO_OUT + G_IO_PRI,
                         revents |-> g_io_condition_from_epoll_events(last.events[k].events),
                         written |-> TRUE]

\* The kernel-notification backend was given max_priority 0 and has handed
\* over B, of priority 10, readable.
C28_Witness ==
  /\ checked.called
  /\ "fds" \notin DOMAIN checked
  /\ checked.max_priority = 0
  /\ \E i \in 1..Len(HandedArray) :
       /\ HandedArray[i].fd \in ScB
       /\ ScPriority(HandedArray[i].fd) > checked.max_priority
       /\ HasBit(HandedArray[i].revents, G_IO_IN)

\* C29: on the portable backend n_poll_records is the number of records
\* linked in the list, after every add_fd, modify_fd, remove_fd (of a
\* registered or an absent descriptor) and reset.
C29_CountIsListLength == n_poll_records = Len(poll_records)

\* remove_fd of an absent descriptor has been flagged with two records left
\* in the list.
C29_Witness ==
  /\ last.op = "remove_fd"
  /\ last.flagged
  /\ \A i \in 1..Len(poll_records) : poll_records[i].fd # last.fd
  /\ Len(poll_records) = 2
  /\ n_poll_records = 2

\* C30: on the kernel-notification backend the managed-descriptor counter
\* is the number of descriptors registered with the kernel facility and is
\* never below zero, after every add_fd, modify_fd and remove_fd, failed
\* ones included.
C30_CounterIsKernelRegistered ==
  /\ n_poll_records = Cardinality(DOMAIN epoll_fd)
  /\ n_poll_records >= 0

\* C31: the iterate thread does not own the backend mutex while it sits in
\* the poll call, the registration thread does not own it while it calls the
\* wake primitive, neither owns it after its operation has returned, and a
\* registration call that arrives while iterate is blocked in poll gets the
\* mutex at once.
C31_NoMutexAcrossWaitOrWake ==
  /\ ipc = "polling" => mutex # "loop"
  /\ mpc = "wakeup" => mutex # "other"
  /\ ipc = "idle" => mutex # "loop"
  /\ mpc = "idle" => mutex # "other"
  /\ (ipc = "polling" /\ mpc = "idle") => ENABLED ctx_lock

\* A registration call has gone through its critical section and reached
\* the wake primitive while iterate is blocked in poll without a timeout.
C31_Witness ==
  /\ ipc = "polling"
  /\ loc.timeout = -1
  /\ mpc = "wakeup"
  /\ poll_changed
  /\ mutex = "free"

\* C32: when a registration call has changed the store after the last query
\* of this iterate began its walk, iterate returns without calling the
\* scheduler's check step.
C32_ChangedSetIsNotChecked ==
  [][(ipc = "postpoll_locked" /\ ipc' = "idle" /\ raced) => ~checked'.called]_vars

\* --------------- array-based kernel-notification backend: the registration
\* The compatibility entries live in the first backend->n_compat_fds slots
\* of backend->fds_ready, the buffer the iterate cycle reports through.
MaxCompat == 3

\* A GPollFD in memory: gint fd, gushort events, gushort revents.
FdBytes == 4
EventsBytes == 2
GPollFDSize == FdBytes + EventsBytes + EventsBytes

\* The byte orders a build can have.
ByteOrders == {"little", "big"}

\* The n bytes of an unsigned value, in memory order.
ValueBytes(v, n, order) ==
  [k \in 1..n |-> IF order = "little" THEN (v \div (256 ^ (k - 1))) % 256
                                     ELSE (v \div (256 ^ (n - k))) % 256]

RECURSIVE BytesValue(_, _)
BytesValue(bs, order) ==
  IF Len(bs) = 0 THEN 0
  ELSE IF order = "little"
         THEN bs[1] + 256 * BytesValue(Tail(bs), order)
         ELSE bs[Len(bs)] + 256 * BytesValue(SubSeq(bs, 1, Len(bs) - 1), order)

GPollFDBytes(p, order) ==
  ValueBytes(p.fd, FdBytes, order) \o ValueBytes(p.events, EventsBytes, order)
    \o ValueBytes(p.revents, EventsBytes, order)

\* The buffer as the bytes memmove sees.
ArrayBytes(fds, order) ==
  [b \in 1..(GPollFDSize * Len(fds)) |->
     GPollFDBytes(fds[((b - 1) \div GPollFDSize) + 1], order)[((b - 1) % GPollFDSize) + 1]]

ArrayFromBytes(mem, fds, order) ==
  [s \in 1..Len(fds) |->
     LET at == GPollFDSize * (s - 1)
     IN [fd |-> BytesValue(SubSeq(mem, at + 1, at + FdBytes), order),
         events |-> BytesValue(SubSeq(mem, at + FdBytes + 1, at + FdBytes + EventsBytes), order),
         revents |-> BytesValue(SubSeq(mem, at + FdBytes + EventsBytes + 1, at + GPollFDSize), order),
         written |-> fds[s].written]]

\* memmove (dest, src, n): n BYTES, at byte offsets dest and src (from 0).
memmove(mem, dest, src, n) ==
  [b \in DOMAIN mem |->
     IF b - 1 >= dest /\ b - 1 < dest + n THEN mem[src + (b - 1 - dest) + 1] ELSE mem[b]]

\* Slots of the buffer whose descriptor is fd, among the first n.
CompatMatches(fds, n, fd) == {i \in 1..n : fds[i].fd = fd}

Min(S) == CHOOSE x \in S : \A y \in S : x <= y

\* g_epoller_add_fd: EPOLL_CTL_ADD; a descriptor refused with EPERM goes to
\* the next compatibility slot, any other failure is logged.
g_epoller_add_fd(fd, events, errno, junk) ==
  /\ errno \in EPOLL_CTL_ADD(fd)
  /\ IF errno # "OK"
       THEN IF errno = "EPERM"
              THEN LET i_next == backend_n_compat_fds
                       fds == g_epoll_context_ensure_ready_size(fds_ready, i_next + 1, junk)
                   IN /\ i_next < MaxCompat
                      /\ backend_n_compat_fds' = i_next + 1
                      /\ fds_ready' = [fds EXCEPT ![i_next + 1] = GPollFD(fd, events)]
                      /\ last' = EpollCall("add_fd", fd, TRUE, FALSE, errno)
                      /\ UNCHANGED <<epoll_fd, n_poll_records>>
              ELSE /\ last' = EpollCall("add_fd", fd, FALSE, TRUE, errno)
                   /\ UNCHANGED <<epoll_fd, n_poll_records, fds_ready, backend_n_compat_fds>>
       ELSE /\ epoll_fd' = g_hash_table_replace(epoll_fd, fd,
                                                g_io_condition_to_epoll_events(events))
            /\ n_poll_records' = n_poll_records + 1
            /\ last' = EpollCall("add_fd", fd, TRUE, FALSE, errno)
            /\ UNCHANGED <<fds_ready, backend_n_compat_fds>>
  /\ UNCHANGED <<poll_records, ctxVars, compat_fds, registered, epoll_output_size>>
  /\ UNCHANGED evVars
  /\ UNCHANGED <<recs, poll_records_tail, added_polls, ctl_failed>>

\* g_epoller_modify_fd: the first compatibility slot of the descriptor gets
\* the new mask; a descriptor without one is an EPOLL_CTL_MOD.
g_epoller_modify_fd(fd, events, errno) ==
  /\ LET found == CompatMatches(fds_ready, backend_n_compat_fds, fd)
     IN IF found # {}
          THEN /\ errno = NOCALL
               /\ fds_ready' = [fds_ready EXCEPT ![Min(found)].events = events]
               /\ last' = EpollCall("modify_fd", fd, TRUE, FALSE, errno)
               /\ UNCHANGED epoll_fd
          ELSE /\ errno \in EPOLL_CTL_MOD(fd)
               /\ epoll_fd' = IF errno = "OK"
                                THEN g_hash_table_replace(epoll_fd, fd,
                                       g_io_condition_to_epoll_events(events))
                                ELSE epoll_fd
               /\ last' = EpollCall("modify_fd", fd, errno = "OK", errno # "OK", errno)
               /\ UNCHANGED fds_ready
  /\ UNCHANGED <<poll_records, n_poll_records, ctxVars, compat_fds, registered,
                 epoll_output_size, backend_n_compat_fds>>
  /\ UNCHANGED evVars
  /\ UNCHANGED <<recs, poll_records_tail, added_polls, ctl_failed>>

\* g_epoller_remove_fd: the first compatibility slot of the descriptor is
\* closed up with memmove and the count drops; a descriptor without one is
\* uncounted and then EPOLL_CTL_DEL runs.  The third argument of memmove is
\* backend->n_compat_fds - 1 - i.
g_epoller_remove_fd(fd, errno, order) ==
  /\ LET n == backend_n_compat_fds
         found == CompatMatches(fds_ready, n, fd)
     IN IF found # {}
          THEN LET i == Min(found) - 1
                   mem == memmove(ArrayBytes(fds_ready, order),
                                  GPollFDSize * i, GPollFDSize * (i + 1), n - 1 - i)
               IN /\ errno = NOCALL
                  /\ fds_ready' = ArrayFromBytes(mem, fds_ready, order)
                  /\ backend_n_compat_fds' = n - 1
                  /\ last' = EpollCall("remove_fd", fd, TRUE, FALSE, errno)
                  /\ UNCHANGED <<epoll_fd, n_poll_records>>
          ELSE /\ n_poll_records > 0 - MaxUnderflow
               /\ n_poll_records' = n_poll_records - 1
               /\ errno \in EPOLL_CTL_DEL(fd)
               /\ epoll_fd' = IF errno = "OK" THEN g_hash_table_remove(epoll_fd, fd)
                                              ELSE epoll_fd
               /\ last' = EpollCall("remove_fd", fd, errno = "OK",
                                    errno # "OK" /\ remove_fd_warns(errno), errno)
               /\ UNCHANGED <<fds_ready, backend_n_compat_fds>>
  /\ UNCHANGED <<poll_records, ctxVars, compat_fds, registered, epoll_output_size>>
  /\ UNCHANGED evVars
  /\ UNCHANGED <<recs, poll_records_tail, added_polls, ctl_failed>>

EpollerErrnos == {"OK", "EPERM", "EEXIST", "ENOSPC", "ENOMEM", "ENOENT", "EBADF", NOCALL}

EpollerAddFd ==
  \E fd \in EpollFDs, events \in EventMasks, errno \in EpollerErrnos, junk \in JunkSlots :
    g_epoller_add_fd(fd, events, errno, junk)
EpollerModifyFd ==
  \E fd \in EpollFDs, events \in EventMasks, errno \in EpollerErrnos :
    g_epoller_modify_fd(fd, events, errno)
EpollerRemoveFd ==
  \E fd \in EpollFDs, errno \in EpollerErrnos, order \in ByteOrders :
    g_epoller_remove_fd(fd, errno, order)

NextEpoller == EpollerAddFd \/ EpollerModifyFd \/ EpollerRemoveFd

SpecEpoller == InitEpoll /\ [][NextEpoller]_vars

\* The compatibility entries other than the one in slot at, in order.
OtherEntries(fds, n, at) ==
  [k \in 1..(n - 1) |-> IF k < at THEN fds[k] ELSE fds[k + 1]]

\* C33: remove_fd of a compatibility descriptor found in slot i among n
\* entries leaves the other n-1 entries, descriptor and interest mask intact
\* and in the same order, in the first n-1 slots, and n_compat_fds drops by
\* one.
C33_RemoveKeepsOtherEntries ==
  [][\A fd \in EpollFDs, errno \in EpollerErrnos, order \in ByteOrders :
       LET n == backend_n_compat_fds
           found == CompatMatches(fds_ready, n, fd)
       IN (g_epoller_remove_fd(fd, errno, order) /\ found # {}) =>
            /\ backend_n_compat_fds' = n - 1
            /\ \A k \in 1..(n - 1) :
                 /\ fds_ready'[k].fd = OtherEntries(fds_ready, n, Min(found))[k].fd
                 /\ fds_ready'[k].events = OtherEntries(fds_ready, n, Min(found))[k].events
    ]_vars

\* C34: in the hash-based backend the compatibility set has one entry per
\* descriptor.  An add_fd refused with EPERM leaves the descriptor with the
\* mask of this call and every other entry as it was, whether or not the
\* descriptor had an entry; one remove_fd of a compatibility descriptor
\* leaves it with no entry at all.
C34_OneCompatEntryPerDescriptor ==
  [][\A fd \in EpollFDs, events \in EpollEventMasks, errno \in EpollErrnos :
       /\ (g_epoll_context_add_fd(fd, events, errno) /\ errno = "EPERM") =>
            /\ DOMAIN compat_fds' = DOMAIN compat_fds \cup {fd}
            /\ compat_fds'[fd] = events
            /\ \A other \in DOMAIN compat_fds \ {fd} : compat_fds'[other] = compat_fds[other]
       /\ (g_epoll_context_remove_fd(fd, errno) /\ fd \in DOMAIN compat_fds) =>
            /\ DOMAIN compat_fds' = DOMAIN compat_fds \ {fd}
            /\ \A other \in DOMAIN compat_fds' : compat_fds'[other] = compat_fds[other]
    ]_vars

\* C34 witness: one remove_fd has erased a compatibility descriptor and the
\* other compatibility descriptor still has its entry.
C34_Witness ==
  /\ last.op = "remove_fd"
  /\ last.errno = NOCALL
  /\ last.retval
  /\ last.fd \notin DOMAIN compat_fds
  /\ DOMAIN compat_fds = NotPollable \ {last.fd}

\* ----------------------- epoll-backed EventContext: add_poll and remove_poll
\* context->poll_records maps a descriptor to the GSList of the GPollFDs
\* added for it (poll_records here), context->epoll_fd is the kernel's
\* interest list (epoll_fd here).  The callers' GPollFD objects, by address;
\* the last one carries a negative descriptor.
MaxAdds == 2
EvPollFD ==
  <<[fd |-> 1, events |-> G_IO_IN],
    [fd |-> 1, events |-> G_IO_OUT + G_IO_ERR],
    [fd |-> 2, events |-> G_IO_PRI + G_IO_IN + G_IO_HUP],
    [fd |-> 1, events |-> G_IO_IN],
    [fd |-> 0 - 1, events |-> G_IO_IN]>>
EvPollFDs == DOMAIN EvPollFD

\* The add_poll calls of GPollFD p that no remove_poll has undone.
AddedCount(p) == Cardinality({a \in added_polls : a[1] = p})
AddedIn(added, fd) == {a \in added : EvPollFD[a[1]].fd = fd}
AddedFor(fd) == AddedIn(added_polls, fd)

\* Only the first element's bits.
get_epoll_event_mask_mut(fds) ==
  IF Len(fds) = 0 THEN 0 ELSE g_io_condition_to_epoll_events(EvPollFD[fds[1]].events)

\* get_epoll_event_mask: the readable, writable and urgent bits of every
\* GPollFD of the list, or-ed.
get_epoll_event_mask(fds) ==
  (IF \E i \in 1..Len(fds) : HasBit(EvPollFD[fds[i]].events, G_IO_IN) THEN G_IO_IN ELSE 0)
  + (IF \E i \in 1..Len(fds) : HasBit(EvPollFD[fds[i]].events, G_IO_OUT) THEN G_IO_OUT ELSE 0)
  + (IF \E i \in 1..Len(fds) : HasBit(EvPollFD[fds[i]].events, G_IO_PRI) THEN G_IO_PRI ELSE 0)

\* g_hash_table_lookup: the list stored for the key, NULL (the empty list)
\* without one.
g_hash_table_lookup(tbl, key) == IF key \in DOMAIN tbl THEN tbl[key] ELSE <<>>

g_slist_prepend(list, data) == <<data>> \o list

\* g_slist_remove: drops the first element holding data.
g_slist_remove(list, data) ==
  LET found == {i \in 1..Len(list) : list[i] = data}
  IN IF found = {} THEN list
     ELSE [k \in 1..(Len(list) - 1) |-> IF k < Min(found) THEN list[k] ELSE list[k + 1]]

\* What epoll_ctl answers.
epoll_ctl(epoll_op, fd) ==
  IF fd < 0 THEN {"EBADF"}
  ELSE IF epoll_op = "EPOLL_CTL_ADD" THEN EPOLL_CTL_ADD(fd)
  ELSE IF epoll_op = "EPOLL_CTL_MOD" THEN EPOLL_CTL_MOD(fd)
  ELSE EPOLL_CTL_DEL(fd)

PollCall(op, p, epoll_op, errno, flagged) ==
  [op |-> op, p |-> p, fd |-> EvPollFD[p].fd, epoll_op |-> epoll_op, errno |-> errno,
   flagged |-> flagged]

g_epoll_context_add_poll(p, errno) ==
  LET fd == EvPollFD[p].fd
      poll_list == g_hash_table_lookup(poll_records, fd)
      epoll_op == IF poll_list = <<>> THEN "EPOLL_CTL_ADD" ELSE "EPOLL_CTL_MOD"
      new_list == g_slist_prepend(poll_list, p)
  IN /\ AddedCount(p) < MaxAdds
     /\ IF ~(fd >= 0)
          THEN /\ errno = NOCALL
               /\ last' = PollCall("add_poll", p, NOCALL, errno, TRUE)
               /\ UNCHANGED <<poll_records, epoll_fd, added_polls, ctl_failed>>
          ELSE /\ errno \in epoll_ctl(epoll_op, fd)
               /\ poll_records' = g_hash_table_replace(poll_records, fd, new_list)
               /\ epoll_fd' = IF errno = "OK"
                                THEN g_hash_table_replace(epoll_fd, fd,
                                                          get_epoll_event_mask(new_list))
                                ELSE epoll_fd
               /\ ctl_failed' = (ctl_failed \/ errno # "OK")
               /\ added_polls' = added_polls \cup {<<p, AddedCount(p) + 1>>}
               /\ last' = PollCall("add_poll", p, epoll_op, errno, FALSE)
     /\ UNCHANGED <<n_poll_records, ctxVars, compat_fds, registered, fds_ready,
                    epoll_output_size>>
     /\ UNCHANGED evVars
     /\ UNCHANGED <<backend_n_compat_fds, recs, poll_records_tail>>

g_epoll_context_remove_poll(p, errno) ==
  LET fd == EvPollFD[p].fd
      poll_list == g_hash_table_lookup(poll_records, fd)
      modified_poll_list == g_slist_remove(poll_list, p)
      epoll_op == IF modified_poll_list = <<>> THEN "EPOLL_CTL_DEL" ELSE "EPOLL_CTL_MOD"
  IN /\ errno \in epoll_ctl(epoll_op, fd)
     /\ poll_records' = IF modified_poll_list = <<>>
                          THEN g_hash_table_remove(poll_records, fd)
                          ELSE g_hash_table_replace(poll_records, fd, modified_poll_list)
     /\ epoll_fd' = IF errno # "OK" THEN epoll_fd
                    ELSE IF epoll_op = "EPOLL_CTL_DEL" THEN g_hash_table_remove(epoll_fd, fd)
                    ELSE g_hash_table_replace(epoll_fd, fd,
                                              get_epoll_event_mask(modified_poll_list))
     /\ ctl_failed' = (ctl_failed \/ errno # "OK")
     /\ added_polls' = added_polls \ {<<p, AddedCount(p)>>}
     /\ last' = PollCall("remove_poll", p, epoll_op, errno, FALSE)
     /\ UNCHANGED <<n_poll_records, ctxVars, compat_fds, registered, fds_ready,
                    epoll_output_size>>
     /\ UNCHANGED evVars
     /\ UNCHANGED <<backend_n_compat_fds, recs, poll_records_tail>>

EvPollAdd == \E p \in EvPollFDs, errno \in EpollErrnos : g_epoll_context_add_poll(p, errno)
EvPollRemove == \E p \in EvPollFDs, errno \in EpollErrnos : g_epoll_context_remove_poll(p, errno)

NextEventPoll == EvPollAdd \/ EvPollRemove

SpecEventPoll == InitEpoll /\ [][NextEventPoll]_vars

\* The union of the readable, writable and urgent bits of the GPollFDs the
\* callers have added for fd and not removed.
AddedMask(fd) ==
  (IF \E a \in AddedFor(fd) : HasBit(EvPollFD[a[1]].events, G_IO_IN) THEN G_IO_IN ELSE 0)
  + (IF \E a \in AddedFor(fd) : HasBit(EvPollFD[a[1]].events, G_IO_OUT) THEN G_IO_OUT ELSE 0)
  + (IF \E a \in AddedFor(fd) : HasBit(EvPollFD[a[1]].events, G_IO_PRI) THEN G_IO_PRI ELSE 0)

EvDescriptors == {EvPollFD[p].fd : p \in EvPollFDs}

\* C35: as long as every epoll_ctl has succeeded, after each add_poll or
\* remove_poll a descriptor has an entry in poll_records exactly when some
\* GPollFD is added for it, the kernel holds exactly those descriptors, each
\* with the union of the readable/writable/urgent bits of its added
\* GPollFDs; an add_poll issued ADD when nothing was added for the
\* descriptor and MOD otherwise, and a remove_poll issued DEL exactly when
\* it removed the last one.
C35_EntriesFollowAddedPolls ==
  [][~ctl_failed' =>
       /\ \A fd \in EvDescriptors :
            /\ fd \in DOMAIN poll_records' <=> AddedFor(fd)' # {}
            /\ fd \in DOMAIN epoll_fd' <=> AddedFor(fd)' # {}
            /\ fd \in DOMAIN epoll_fd' => epoll_fd'[fd] = AddedMask(fd)'
       /\ (last'.op = "add_poll" /\ ~last'.flagged) =>
            last'.epoll_op = IF AddedFor(last'.fd) = {} THEN "EPOLL_CTL_ADD"
                                                        ELSE "EPOLL_CTL_MOD"
       /\ last'.op = "remove_poll" =>
            last'.epoll_op = IF AddedIn(added_polls', last'.fd) = {} THEN "EPOLL_CTL_DEL"
                                                         ELSE "EPOLL_CTL_MOD"
    ]_vars

\* C35 witness: with every epoll_ctl successful so far, a remove_poll took
\* one of three GPollFDs added for descriptor 1 and issued MOD; the kernel
\* now holds the union of the two that stay.
C35_Witness ==
  /\ ~ctl_failed
  /\ last.op = "remove_poll"
  /\ last.epoll_op = "EPOLL_CTL_MOD"
  /\ last.errno = "OK"
  /\ last.p = 1
  /\ {a[1] : a \in AddedFor(1)} = {2, 4}
  /\ epoll_fd[1] = G_IO_IN + G_IO_OUT
  /\ 2 \in DOMAIN epoll_fd

\* ------------------------------------------------- event-mask translation
\* The portable masks: the five GIOCondition bits and one bit beyond them.
\* The kernel masks: the five bits and two bits beyond them.
MaxIoCond == 63
MaxEpollEvents == 127
IoConds == 0..MaxIoCond
EpollEventSets == 0..MaxEpollEvents

MaskInput(io_cond, epoll_events) ==
  [op |-> "none", io_cond |-> io_cond, epoll_events |-> epoll_events, result |-> 0]

InitMasks ==
  /\ poll_records = <<>>
  /\ n_poll_records = 0
  /\ \E io_cond \in IoConds, epoll_events \in EpollEventSets :
       last = MaskInput(io_cond, epoll_events)
  /\ InitCtx
  /\ NoContext

MaskFrame ==
  /\ UNCHANGED <<poll_records, n_poll_records, ctxVars, epollVars>>
  /\ UNCHANGED evVars
  /\ UNCHANGED extVars

\* ev.events = g_io_condition_to_epoll_events (events)
ToEpollEvents ==
  /\ last' = [last EXCEPT !.op = "to_epoll",
                          !.result = g_io_condition_to_epoll_events(last.io_cond)]
  /\ MaskFrame

\* pollfd->revents = g_io_condition_from_epoll_events (ev->events)
FromEpollEvents ==
  /\ last' = [last EXCEPT !.op = "from_epoll",
                          !.result = g_io_condition_from_epoll_events(last.epoll_events)]
  /\ MaskFrame

\* The mask registered by add_fd, all of it reported by epoll_wait and
\* translated for the scheduler.
RoundTrip ==
  /\ last' = [last EXCEPT !.op = "round_trip",
                          !.result = g_io_condition_from_epoll_events(
                                       g_io_condition_to_epoll_events(last.io_cond))]
  /\ MaskFrame

NextMasks == ToEpollEvents \/ FromEpollEvents \/ RoundTrip

SpecMasks == InitMasks /\ [][NextMasks]_vars

\* The bits set in a mask.
MaskBits == {1, 2, 4, 8, 16, 32, 64}
BitsOf(mask) == {b \in MaskBits : HasBit(mask, b)}

\* C36: translating a portable mask to the kernel keeps exactly its
\* readable, writable and urgent bits; translating a kernel mask back keeps
\* exactly its readable, writable, urgent, error and hangup bits; to the
\* kernel and back gives the portable mask restricted to readable, writable
\* and urgent.
C36_MaskTranslation ==
  /\ last.op = "to_epoll" =>
       BitsOf(last.result) = BitsOf(last.io_cond) \cap {G_IO_IN, G_IO_OUT, G_IO_PRI}
  /\ last.op = "from_epoll" =>
       BitsOf(last.result) =
         BitsOf(last.epoll_events) \cap {G_IO_IN, G_IO_OUT, G_IO_PRI, G_IO_ERR, G_IO_HUP}
  /\ last.op = "round_trip" =>
       BitsOf(last.result) = BitsOf(last.io_cond) \cap {G_IO_IN, G_IO_OUT, G_IO_PRI}

\* C36 witness: the round trip of readable + urgent + error + hangup came
\* back as readable + urgent.
C36_Witness ==
  /\ last.op = "round_trip"
  /\ last.io_cond = G_IO_IN + G_IO_PRI + G_IO_ERR + G_IO_HUP
  /\ last.result = G_IO_IN + G_IO_PRI

\* ------------------------------------- portable store: the pointer surgery
\* The list as the code holds it: GPollRec blocks with prev and next
\* pointers (recs, by address), backend->poll_records (here an address, NULL
\* for none) and backend->poll_records_tail.
Addrs == 1..MaxRecs

InitList ==
  /\ poll_records = NULL
  /\ n_poll_records = 0
  /\ last = NoCall
  /\ InitCtx
  /\ NoContext

ListCall(op, fd, flagged, prevrec, nextrec) ==
  [op |-> op, fd |-> fd, flagged |-> flagged, prevrec |-> prevrec, nextrec |-> nextrec]

ListFrame ==
  /\ UNCHANGED <<ctxVars, epollVars>>
  /\ UNCHANGED evVars
  /\ UNCHANGED <<backend_n_compat_fds, added_polls, ctl_failed>>

\* add_fd's loop: from the tail towards the head while priority is lower
\* than the record's; gives <<prevrec, nextrec>>.
RECURSIVE add_fd_walk(_, _, _)
add_fd_walk(prevrec, nextrec, priority) ==
  IF prevrec # NULL /\ priority < recs[prevrec].priority
    THEN add_fd_walk(recs[prevrec].prev, prevrec, priority)
    ELSE <<prevrec, nextrec>>

\* remove_fd's loop: from the head along next to the first record with the
\* descriptor; gives <<pollrec, prevrec>>, pollrec NULL when there is none.
RECURSIVE remove_fd_walk(_, _, _)
remove_fd_walk(pollrec, prevrec, fd) ==
  IF pollrec = NULL \/ recs[pollrec].fd = fd
    THEN <<pollrec, prevrec>>
    ELSE remove_fd_walk(recs[pollrec].next, pollrec, fd)

\* Leaves the tail pointer alone.
remove_fd_new_tail_mut(prevrec, nextrec) == poll_records_tail

\* if (nextrec != NULL) nextrec->prev = prevrec;
\* else backend->poll_records_tail = prevrec;
remove_fd_new_tail(prevrec, nextrec) ==
  IF nextrec # NULL THEN poll_records_tail ELSE prevrec

\* g_baseline_poller_add_fd / g_poll_context_add_fd on the pointers; newrec
\* is the address g_slice_new hands out.
add_fd_pointers(fd, events, priority, newrec) ==
  LET w == add_fd_walk(poll_records_tail, NULL, priority)
      prevrec == w[1]
      nextrec == w[2]
      linked == [a \in DOMAIN recs \cup {newrec} |->
                   IF a = newrec
                     THEN [fd |-> fd, events |-> events, priority |-> priority,
                           prev |-> prevrec, next |-> nextrec]
                   ELSE IF a = prevrec THEN [recs[a] EXCEPT !.next = newrec]
                   ELSE IF a = nextrec THEN [recs[a] EXCEPT !.prev = newrec]
                   ELSE recs[a]]
  IN /\ newrec \notin DOMAIN recs
     /\ recs' = linked
     /\ poll_records' = IF prevrec # NULL THEN poll_records ELSE newrec
     /\ poll_records_tail' = IF nextrec # NULL THEN poll_records_tail ELSE newrec
     /\ n_poll_records' = n_poll_records + 1
     /\ last' = ListCall("add_fd", fd, FALSE, prevrec, nextrec)
     /\ ListFrame

\* g_baseline_poller_remove_fd / g_poll_context_remove_fd on the pointers.
remove_fd_pointers(fd) ==
  LET w == remove_fd_walk(poll_records, NULL, fd)
      pollrec == w[1]
      prevrec == w[2]
  IN IF pollrec = NULL
       THEN /\ last' = ListCall("remove_fd", fd, TRUE, NULL, NULL)
            /\ UNCHANGED <<recs, poll_records, poll_records_tail, n_poll_records>>
            /\ ListFrame
       ELSE LET nextrec == recs[pollrec].next
            IN /\ recs' = [a \in DOMAIN recs \ {pollrec} |->
                             IF a = prevrec /\ a = nextrec
                               THEN [recs[a] EXCEPT !.next = nextrec, !.prev = prevrec]
                             ELSE IF a = prevrec THEN [recs[a] EXCEPT !.next = nextrec]
                             ELSE IF a = nextrec THEN [recs[a] EXCEPT !.prev = prevrec]
                             ELSE recs[a]]
               /\ poll_records' = IF prevrec # NULL THEN poll_records ELSE nextrec
               /\ poll_records_tail' = remove_fd_new_tail(prevrec, nextrec)
               /\ n_poll_records' = n_poll_records - 1
               /\ last' = ListCall("remove_fd", fd, FALSE, prevrec, nextrec)
               /\ ListFrame

\* The records g_slice_free_chain frees: those reached from rec along next.
RECURSIVE slice_chain(_, _)
slice_chain(rec, seen) ==
  IF rec = NULL \/ rec \in seen \/ rec \notin DOMAIN recs THEN seen
  ELSE slice_chain(recs[rec].next, seen \cup {rec})

\* g_baseline_poller_reset on the pointers.
reset_pointers ==
  /\ recs' = [a \in DOMAIN recs \ slice_chain(poll_records, {}) |-> recs[a]]
  /\ poll_records' = NULL
  /\ poll_records_tail' = NULL
  /\ n_poll_records' = 0
  /\ last' = ListCall("reset", 0, FALSE, NULL, NULL)
  /\ ListFrame

ListAddFd ==
  \E fd \in FDs, events \in EventMasks, priority \in Priorities, newrec \in Addrs :
    add_fd_pointers(fd, events, priority, newrec)
ListRemoveFd == \E fd \in FDs : remove_fd_pointers(fd)

NextList == ListAddFd \/ ListRemoveFd \/ reset_pointers

SpecList == InitList /\ [][NextList]_vars

\* The addresses met from the head along next, in order, no further than
\* the number of allocated records.
RECURSIVE ListFrom(_, _)
ListFrom(rec, fuel) ==
  IF rec = NULL \/ rec \notin DOMAIN recs \/ fuel = 0 THEN <<>>
  ELSE <<rec>> \o ListFrom(recs[rec].next, fuel - 1)

\* C38: the list is well formed.  Head and tail are null exactly when the
\* store is empty; the head has no prev and the tail no next; x.next = y
\* exactly when y.prev = x; every pointer is null or an allocated record;
\* and the tail is the last record met from the head.
C38_ListWellFormed ==
  LET chain == ListFrom(poll_records, Cardinality(DOMAIN recs) + 1)
  IN /\ (poll_records = NULL) <=> (n_poll_records = 0)
     /\ (poll_records_tail = NULL) <=> (n_poll_records = 0)
     /\ (n_poll_records = 0) <=> (DOMAIN recs = {})
     /\ poll_records # NULL => poll_records \in DOMAIN recs /\ recs[poll_records].prev = NULL
     /\ poll_records_tail # NULL =>
          poll_records_tail \in DOMAIN recs /\ recs[poll_records_tail].next = NULL
     /\ \A x \in DOMAIN recs :
          /\ recs[x].next \in DOMAIN recs \cup {NULL}
          /\ recs[x].prev \in DOMAIN recs \cup {NULL}
     /\ \A x, y \in DOMAIN recs : (recs[x].next = y) <=> (recs[y].prev = x)
     /\ Len(chain) = Cardinality(DOMAIN recs)
     /\ Len(chain) > 0 => chain[Len(chain)] = poll_records_tail

\* C38 witness: remove_fd has unlinked the last of three records, and the
\* two that stay are head and tail of one chain.
C38_Witness ==
  /\ last.op = "remove_fd"
  /\ ~last.flagged
  /\ last.prevrec # NULL
  /\ last.nextrec = NULL
  /\ n_poll_records = 2
  /\ poll_records # poll_records_tail
  /\ recs[poll_records].next = poll_records_tail

\* ---------- kernel-notification backend: registration racing the iterate
\* The loop thread runs g_epoll_context_iterate in its two halves while
\* other threads call add_fd, modify_fd and remove_fd at any point between
\* them; g_poll and epoll_wait answer whatever they may.
EpollRaceBegin ==
  \E bd \in BlockDeadlines, order \in IterOrders(compat_fds), junk \in IterJunk :
    \E cp \in CompatPolls(Len(order)) :
      epoll_iterate_begin(0, bd[1], bd[2], order, cp[1], cp[2], junk)

EpollRaceReturn ==
  /\ ipc = "epoll_wait"
  /\ \E res \in EpollWaitResults(loc.nfds, loc.timeout), junk \in IterJunk :
       epoll_wait_return(res, junk)

NextEpollRace ==
  \/ \E fd \in IterFDs, events \in IterEventMasks, errno \in EpollErrnos :
       ipc # "aborted" /\ g_epoll_context_add_fd(fd, events, errno)
  \/ \E fd \in IterFDs, events \in IterEventMasks, errno \in EpollErrnos :
       ipc # "aborted" /\ g_epoll_context_modify_fd(fd, events, errno)
  \/ \E fd \in IterFDs, errno \in EpollErrnos :
       ipc # "aborted" /\ g_epoll_context_remove_fd(fd, errno)
  \/ EpollRaceBegin
  \/ EpollRaceReturn

SpecEpollRace == InitEpoll /\ [][NextEpollRace]_vars

====
